---------------------------- MODULE Spec2Model ----------------------------
(***************************************************************************)
(* A model of the PER extension's remote command protocol and of the       *)
(* storage synchronisation state machine built on it.                      *)
(*                                                                         *)
(*   - ColabTerminalExecutor (src/src/server/colab/terminal-executor.ts):  *)
(*     one WebSocket to the remote tty, execute() framed by a completion   *)
(*     marker.  Specification Spec.                                        *)
(*   - StorageIntegration (src/src/server/storage/storage-integration.ts)  *)
(*     over the atomic operations of src/src/server/storage/operations.ts. *)
(*     Specification SpecStorage.                                          *)
(*                                                                         *)
(* Text is a sequence of one-character strings.  Time is abstracted: a     *)
(* timer that is armed may fire at any later step.                         *)
(***************************************************************************)
EXTENDS Integers, Sequences, FiniteSets, TLC

VARIABLES
    terminalWs,   \* ColabTerminalExecutor.terminalWs: a socket id, 0 for null
    sock,         \* every WebSocket object created so far
    nSock,        \* how many WebSocket objects were constructed
    call,         \* the execute() invocations, by call id
    disposed,     \* history: dispose() has been called
    serverSetupStatus,  \* StorageIntegration.serverSetupStatus: server id -> status
    lastEvent,    \* the status of the last event fired for each server id
    config,       \* what storageConfigManager.get() yields
    lastSync,     \* the persisted configuration holds a lastSync timestamp
    remote,       \* what is on each server: the tool, its config, the directories
    flow,         \* the invocations of StorageIntegration's operations
    path,         \* the argument given to sanitizePathForBisync
    sanitized,    \* what the calls of sanitizePathForBisync returned, in order
    options,      \* SyncOptions: the localPath and remotePath given to the sync calls
    listings,      \* the names of the listings in the server's bisync cache
    executors,    \* ExecutorManager.executors: server id -> executor, 0 for no entry
    instance,     \* every executor the manager constructed
    handed,        \* what getOrCreateExecutor returned last
    command,      \* the command text given to buildCommand
    verdicts,      \* what isCmdDone said of each chunk that came back, in order
    secrets,      \* what SecretStorage holds under STORAGE_CONFIG_KEY
    workspaceState, \* storage.workspaceId and storage.remoteRootPath of the workspace Memento
    saved,        \* the configuration the last save() that succeeded was given
    answer        \* what the last call of StorageConfigManager gave its caller

execVars == <<terminalWs, sock, nSock, call, disposed>>

storageVars == <<serverSetupStatus, lastEvent, config, lastSync, remote, flow>>

pathVars == <<path, sanitized, options, listings>>

managerVars == <<executors, instance, handed>>

echoVars == <<command, verdicts>>

configVars == <<secrets, workspaceState, saved, answer>>

vars == <<terminalWs, sock, nSock, call, disposed,
          serverSetupStatus, lastEvent, config, lastSync, remote, flow,
          path, sanitized, options, listings,
          executors, instance, handed,
          command, verdicts,
          secrets, workspaceState, saved, answer>>

-----------------------------------------------------------------------------
(* Bounds of the model *)

\* execute() invocations in one behaviour
MaxCalls == 2

\* WebSocket objects constructed in one behaviour
MaxSockets == 2

Calls == 1..MaxCalls

Socks == 1..MaxSockets

-----------------------------------------------------------------------------
(* WebSocket.readyState *)

CONNECTING == 0

OPEN == 1

CLOSED == 3

\* the slot of a WebSocket that has not been constructed yet
NoSocket == [readyState |-> CLOSED, onmessage |-> 0, awaiter |-> 0, stream |-> <<>>]

\* a WebSocket just constructed by connect(); awaiter is the execute() call
\* awaiting connect()'s promise (0: nobody, the promise is dropped)
NewSocket(c) == [readyState |-> CONNECTING, onmessage |-> 0, awaiter |-> c, stream |-> <<>>]

-----------------------------------------------------------------------------
(* Text *)

ESC == "ESC"   \* one complete ANSI control sequence, e.g. \x1b[?2004h

CR == "\r"

LF == "\n"

MARKER == <<"_","_","C","M","D","_","C","O","M","P","L","E","T","E","_","_">>

ExitPrefix == <<":","e","x","i","t","=">>

Digits == <<"0","1","2","3","4","5","6","7","8","9">>

IsDigit(ch) == \E d \in 1..10 : Digits[d] = ch

DigitValue(ch) == (CHOOSE d \in 1..10 : Digits[d] = ch) - 1

\* parseInt(text, 10) of a non-empty run of decimal digits
RECURSIVE parseInt(_)
parseInt(ds) ==
    IF Len(ds) = 0 THEN 0
    ELSE 10 * parseInt(SubSeq(ds, 1, Len(ds) - 1)) + DigitValue(ds[Len(ds)])

\* the shell's expansion of $rc: the decimal digits of n
RECURSIVE ToDecimal(_)
ToDecimal(n) ==
    IF n < 10 THEN <<Digits[n + 1]>>
    ELSE ToDecimal(n \div 10) \o <<Digits[(n % 10) + 1]>>

\* strip-ansi: control sequences are removed
stripAnsi(data) == SelectSeq(data, LAMBDA ch : ch # ESC)

\* .replace(/\r(?!\n)/g, '\n')
NormalizeCR(data) ==
    [i \in 1..Len(data) |->
        IF data[i] = CR /\ (i = Len(data) \/ data[i + 1] # LF) THEN LF ELSE data[i]]

prettifyOutput(data) == NormalizeCR(stripAnsi(data))

\* markerPattern matches output at position i: MARKER ":exit=" and one digit
MatchesAt(output, i) ==
    /\ i + Len(MARKER) + Len(ExitPrefix) <= Len(output)
    /\ SubSeq(output, i, i + Len(MARKER) + Len(ExitPrefix) - 1) = MARKER \o ExitPrefix
    /\ IsDigit(output[i + Len(MARKER) + Len(ExitPrefix)])

\* the (\d+) group of the match at i: the longest run of digits
DigitRun(output, i) ==
    LET from == i + Len(MARKER) + Len(ExitPrefix)
        last == CHOOSE j \in from..Len(output) :
                    /\ \A k \in from..j : IsDigit(output[k])
                    /\ (j = Len(output) \/ ~IsDigit(output[j + 1]))
    IN  SubSeq(output, from, last)

isCmdDone(output) ==
    IF \E i \in 1..Len(output) : MatchesAt(output, i)
    THEN LET i == CHOOSE k \in 1..Len(output) :
                      MatchesAt(output, k) /\ \A m \in 1..(k - 1) : ~MatchesAt(output, m)
         IN  [complete |-> TRUE, exitCode |-> parseInt(DigitRun(output, i))]
    ELSE [complete |-> FALSE, exitCode |-> -1]


-----------------------------------------------------------------------------
(* The remote shell *)

\* exit statuses the remote shell may announce
ExitCodes == {0, 1, 127}

\* the command never completes: the shell prints no marker line
Hangs == -1

\* what the tty sends back for one framed command that ends with status e:
\* the command's own output, then the line printed by  echo "MARKER:exit=$rc"
Response(e) ==
    IF e = Hangs THEN <<ESC, "o", CR>>
    ELSE <<ESC, "o", CR>> \o MARKER \o ExitPrefix \o ToDecimal(e) \o <<CR, LF>>

-----------------------------------------------------------------------------
(* ColabTerminalExecutor *)

\* One execute() invocation.  pc is where the call stands; timer is its
\* setTimeout; cmdOutput, exitCode, success are the CommandResult it builds and
\* error the kind of Error it rejects with.  History only: sent (the framed
\* command went out), announced (the exit status the remote shell prints for it),
\* cold (it was invoked with no socket left after a command timeout), reopened
\* (its waitForConnection called connect()).
IdleCall ==
    [pc |-> "idle", timer |-> FALSE, sent |-> FALSE, announced |-> Hangs,
     cmdOutput |-> <<>>, exitCode |-> -1, success |-> FALSE, error |-> "none",
     cold |-> FALSE, reopened |-> FALSE]

\* get isConnected(): this.terminalWs?.readyState === 1
isConnected == terminalWs # 0 /\ sock[terminalWs].readyState = OPEN

\* this.terminalWs?.readyState === 3
isClosed == terminalWs # 0 /\ sock[terminalWs].readyState = CLOSED

\* WebSocket.close(): the socket passes through CLOSING to CLOSED.  The executor
\* drops its reference in the same call, so the two are one step here; what the
\* remote had still to deliver is lost
CloseSocket(ws) == [ws EXCEPT !.readyState = CLOSED, !.awaiter = 0, !.stream = <<>>]

\* after connect()'s promise settles, the execute() call awaiting it goes round
\* the loop of waitForConnection again (resolved or rejected: the catch is empty)
Resume(cs, c) ==
    IF c # 0 /\ cs[c].pc = "reconnecting" THEN [cs EXCEPT ![c].pc = "waiting"] ELSE cs

\* the execute() call, if any, awaiting connect() on the current socket: a
\* handshake aborted by close() reports an error to that promise
Awaiter == IF terminalWs # 0 THEN sock[terminalWs].awaiter ELSE 0

\* a disconnect() that would leave the socket as it is
disconnectKeepsSocket == UNCHANGED <<sock, terminalWs>>

\* disconnect(): close the socket if there is one, and forget it
disconnect ==
    /\ sock' = IF terminalWs # 0
               THEN [sock EXCEPT ![terminalWs] = CloseSocket(sock[terminalWs])]
               ELSE sock
    /\ terminalWs' = 0

\* connect() past its isConnected guard: a new WebSocket replaces terminalWs;
\* awaiter is the execute() call that awaits the returned promise (0: nobody)
OpenSocket(awaiter) ==
    /\ nSock < MaxSockets
    /\ nSock' = nSock + 1
    /\ sock' = [sock EXCEPT ![nSock + 1] = NewSocket(awaiter)]
    /\ terminalWs' = nSock + 1

\* a promise settles once: reject() on a settled call changes nothing
Reject(rec, kind) ==
    IF rec.pc \in {"resolved", "rejected"} THEN rec
    ELSE [rec EXCEPT !.pc = "rejected", !.error = kind]

\* a cmdResponse that would report success whatever the exit code
CmdResponseAlwaysSuccess(rec, result) ==
    [rec EXCEPT !.pc = "resolved",
                !.exitCode = result.exitCode,
                !.success = TRUE]

\* cmdResponse of outputResponseHandler, resolved into the call
CmdResponse(rec, result) ==
    [rec EXCEPT !.pc = "resolved",
                !.exitCode = result.exitCode,
                !.success = (result.exitCode = 0)]

\* outputResponseHandler of call rec on one valid inbound message; what the
\* handler of a settled call still collects is seen by nobody
outputResponseHandler(rec, data) ==
    IF rec.pc # "pending" THEN rec
    ELSE LET chunk == prettifyOutput(data)
             acc == [rec EXCEPT !.cmdOutput = rec.cmdOutput \o chunk]
             result == isCmdDone(chunk)
         IN  IF result.complete THEN CmdResponse(acc, result) ELSE acc

\* Between the return of waitForConnection and the promise body of execute only
\* the caller's own code runs: timers and socket events are later tasks.
NoneReady == \A c \in Calls : call[c].pc # "ready"

\* some command has run into CMD_TIMEOUT
TimedOut == \E d \in Calls : call[d].error = "TIMEOUT"

(* ---- StorageIntegration: state ---- *)

\* the invocations of StorageIntegration's operations
MaxFlows == 3

Flows == 1..MaxFlows

\* the invocations in the specifications that start from every state of the
\* servers and of the configuration: two fewer than in SpecSync
StorageFlows == 1..(MaxFlows - 2)

\* the invocations in SpecRace: a setupOnServer and a validateSetup that overlap
RaceFlows == 1..(MaxFlows - 1)

\* the server ids of the executors handed to StorageIntegration
Servers == {"s1", "s2"}

\* enum StorageStatus
StorageStatus ==
    {"not_configured", "setup_required", "checking", "installing", "syncing",
     "ready", "error"}

\* serverSetupStatus.get(serverId) of a server id the map does not hold
Absent == "absent"

\* getStatus(serverId): the map's entry, NOT_CONFIGURED without one
getStatus(serverId) ==
    IF serverSetupStatus[serverId] = Absent THEN "not_configured"
    ELSE serverSetupStatus[serverId]

\* The values storageConfigManager.get() hands to StorageIntegration, by what
\* the operations read of them: defined, enabled, rcloneConfigContent
\* non-empty, validateWorkspace() returns no error, remoteRootPath has a remote
\* name before its first colon.
Undefined ==
    [defined |-> FALSE, enabled |-> FALSE, content |-> FALSE,
     workspace |-> FALSE, remoteName |-> FALSE]

Enabled ==
    [defined |-> TRUE, enabled |-> TRUE, content |-> TRUE,
     workspace |-> TRUE, remoteName |-> TRUE]

Configs ==
    {Undefined,
     [Enabled EXCEPT !.enabled = FALSE],
     Enabled,
     [Enabled EXCEPT !.content = FALSE],
     [Enabled EXCEPT !.workspace = FALSE],
     [Enabled EXCEPT !.remoteName = FALSE]}

\* A server as the commands find it: rclone installed, rclone.conf written, the
\* remote directory exists, a bisync listing exists.
Fresh ==
    [installed |-> FALSE, hasConfig |-> FALSE, remoteDir |-> FALSE,
     bisyncState |-> FALSE]

Provisioned ==
    [installed |-> TRUE, hasConfig |-> TRUE, remoteDir |-> TRUE,
     bisyncState |-> TRUE]

Remotes ==
    {Fresh,
     [Fresh EXCEPT !.remoteDir = TRUE],
     [Fresh EXCEPT !.installed = TRUE],
     Provisioned}

\* the StorageSetupResult a flow has not returned yet
NoResult == [success |-> FALSE, status |-> "none", text |-> "none"]

\* A flow: the operation invoked, the executor's serverId, the await it is at,
\* the command it awaits, the config it read, the result it returned; history:
\* the statuses it fired and the commands it issued, in order, the last command
\* that did not succeed and what its operation made of it (a boolean probe
\* answers false, whether the command failed or execute threw), whether the flow
\* wrote the lastSync timestamp, and, for the operations that read the status
\* map, what getStatus gave when the operation was invoked.
IdleFlow ==
    [op |-> "idle", server |-> "s1", pc |-> "idle", awaiting |-> "none",
     config |-> Undefined, ret |-> NoResult, events |-> <<>>, cmds |-> <<>>,
     failed |-> "none", report |-> "none", wrote |-> FALSE, entry |-> "none"]

\* no operation of StorageIntegration has been invoked
StorageIdle ==
    /\ serverSetupStatus = [sv \in Servers |-> Absent]
    /\ lastEvent = [sv \in Servers |-> "none"]
    /\ config = Undefined
    /\ lastSync = FALSE
    /\ remote = [sv \in Servers |-> Fresh]
    /\ flow = [f \in Flows |-> IdleFlow]

\* a value that is undefined
NoValue == [type |-> "undefined"]

\* nothing has been stored by StorageConfigManager and none of its methods
\* has been called
NoSecrets ==
    /\ secrets = NoValue
    /\ workspaceState = [workspaceId |-> "undefined", remoteRootPath |-> "undefined"]
    /\ saved = NoValue
    /\ answer = [type |-> "none"]

\* no command text has been framed
NoCommand ==
    /\ command = <<>>
    /\ verdicts = <<>>

\* how many executors the manager constructs in one behaviour
MaxExecutors == 4

NotHanded == [server |-> "none", executor |-> 0]

\* new ExecutorManager(): the registry is empty
NoExecutors ==
    /\ executors = [sv \in Servers |-> 0]
    /\ instance = <<>>
    /\ handed = NotHanded

\* SyncOptions not given: no sync call is under way
NoOptions == [localPath |-> <<>>, remotePath |-> <<>>, additionalFlags |-> "undefined"]

\* no path has been handed to the functions of operations.ts
NoPaths ==
    /\ path = <<>>
    /\ sanitized = <<>>
    /\ options = NoOptions
    /\ listings = {}

(* ---- the caller's entry points ---- *)

\* execute(cmd) is invoked; the first round of waitForConnection runs at once
Execute(c) ==
    /\ call[c].pc = "idle"
    /\ \A d \in Calls : d < c => call[d].pc # "idle"
    /\ \/ /\ isConnected
          /\ call' = [call EXCEPT ![c].pc = "ready"]
          /\ UNCHANGED <<terminalWs, sock, nSock, disposed, storageVars, pathVars, managerVars, echoVars, configVars>>
       \/ /\ isClosed
          /\ OpenSocket(c)
          /\ call' = [call EXCEPT ![c].pc = "reconnecting", ![c].reopened = TRUE]
          /\ UNCHANGED <<disposed, storageVars, pathVars, managerVars, echoVars, configVars>>
       \/ /\ ~isConnected
          /\ ~isClosed
          /\ call' = [call EXCEPT ![c].pc = "waiting",
                                  ![c].cold = (terminalWs = 0 /\ TimedOut)]
          /\ UNCHANGED <<terminalWs, sock, nSock, disposed, storageVars, pathVars, managerVars, echoVars, configVars>>

\* connect() called by the owner of the executor
Connect ==
    \/ /\ isConnected
       /\ UNCHANGED vars
    \/ /\ ~isConnected
       /\ OpenSocket(0)
       /\ UNCHANGED <<call, disposed, storageVars, pathVars, managerVars, echoVars, configVars>>

\* disconnect() called by the owner of the executor
Disconnect ==
    /\ terminalWs # 0
    /\ disconnect
    /\ call' = Resume(call, Awaiter)
    /\ UNCHANGED <<nSock, disposed, storageVars, pathVars, managerVars, echoVars, configVars>>

\* dispose()
Dispose ==
    /\ ~disposed
    /\ disconnect
    /\ call' = Resume(call, Awaiter)
    /\ disposed' = TRUE
    /\ UNCHANGED <<nSock, storageVars, pathVars, managerVars, echoVars, configVars>>

(* ---- waitForConnection, after a 200 ms sleep ---- *)

\* the loop ends: the socket is open
WaitConnected(c) ==
    /\ NoneReady
    /\ call[c].pc = "waiting"
    /\ isConnected
    /\ call' = [call EXCEPT ![c].pc = "ready"]
    /\ UNCHANGED <<terminalWs, sock, nSock, disposed, storageVars, pathVars, managerVars, echoVars, configVars>>

\* the 15 s are used up
WaitTimeout(c) ==
    /\ NoneReady
    /\ call[c].pc = "waiting"
    /\ ~isConnected
    /\ call' = [call EXCEPT ![c] = Reject(call[c], "CONNECTION_TIMEOUT")]
    /\ UNCHANGED <<terminalWs, sock, nSock, disposed, storageVars, pathVars, managerVars, echoVars, configVars>>

\* the socket is CLOSED: await this.connect()
WaitReconnect(c) ==
    /\ NoneReady
    /\ call[c].pc = "waiting"
    /\ isClosed
    /\ OpenSocket(c)
    /\ call' = [call EXCEPT ![c].pc = "reconnecting", ![c].reopened = TRUE]
    /\ UNCHANGED <<disposed, storageVars, pathVars, managerVars, echoVars, configVars>>

(* ---- the promise body of execute ---- *)

\* if (!this.terminalWs) reject
ExecuteNotInitialized(c) ==
    /\ call[c].pc = "ready"
    /\ terminalWs = 0
    /\ call' = [call EXCEPT ![c] = Reject(call[c], "NOT_INITIALIZED")]
    /\ UNCHANGED <<terminalWs, sock, nSock, disposed, storageVars, pathVars, managerVars, echoVars, configVars>>

\* if (this.terminalWs.readyState !== 1) reject
ExecuteNotReady(c) ==
    /\ call[c].pc = "ready"
    /\ terminalWs # 0
    /\ sock[terminalWs].readyState # OPEN
    /\ call' = [call EXCEPT ![c] = Reject(call[c], "NOT_READY")]
    /\ UNCHANGED <<terminalWs, sock, nSock, disposed, storageVars, pathVars, managerVars, echoVars, configVars>>

\* the timer is armed, the handler installed and the framed command sent; the
\* remote will answer it with exit status e (or never)
ExecuteSend(c, e) ==
    /\ call[c].pc = "ready"
    /\ isConnected
    /\ call' = [call EXCEPT ![c].pc = "pending", ![c].timer = TRUE,
                            ![c].sent = TRUE, ![c].announced = e]
    /\ sock' = [sock EXCEPT ![terminalWs].onmessage = c,
                            ![terminalWs].stream = @ \o Response(e)]
    /\ UNCHANGED <<terminalWs, nSock, disposed, storageVars, pathVars, managerVars, echoVars, configVars>>

\* setTimeout(..., CMD_TIMEOUT) fires: disconnect(), then reject
Timeout(c) ==
    /\ NoneReady
    /\ call[c].timer
    /\ disconnect
    /\ call' = [Resume(call, Awaiter) EXCEPT
                    ![c] = [Reject(call[c], "TIMEOUT") EXCEPT !.timer = FALSE]]
    /\ UNCHANGED <<nSock, disposed, storageVars, pathVars, managerVars, echoVars, configVars>>

(* ---- WebSocket events ---- *)

\* onopen
SocketOpen(s) ==
    /\ NoneReady
    /\ s <= nSock
    /\ sock[s].readyState = CONNECTING
    /\ sock' = [sock EXCEPT ![s].readyState = OPEN, ![s].awaiter = 0]
    /\ call' = Resume(call, sock[s].awaiter)
    /\ UNCHANGED <<terminalWs, nSock, disposed, storageVars, pathVars, managerVars, echoVars, configVars>>

\* onerror: the handshake failed
SocketError(s) ==
    /\ NoneReady
    /\ s <= nSock
    /\ sock[s].readyState = CONNECTING
    /\ sock' = [sock EXCEPT ![s] = CloseSocket(@)]
    /\ call' = Resume(call, sock[s].awaiter)
    /\ UNCHANGED <<terminalWs, nSock, disposed, storageVars, pathVars, managerVars, echoVars, configVars>>

\* the remote end closes an open socket; nothing listens for it (onclose is
\* never set: assignDefaultHandlers has no caller)
SocketClosed(s) ==
    /\ NoneReady
    /\ s <= nSock
    /\ sock[s].readyState = OPEN
    /\ sock' = [sock EXCEPT ![s] = CloseSocket(@)]
    /\ UNCHANGED <<terminalWs, nSock, call, disposed, storageVars, pathVars, managerVars, echoVars, configVars>>

\* one inbound message carrying the next n characters of the tty's output
Deliver(s, n) ==
    /\ NoneReady
    /\ s <= nSock
    /\ sock[s].readyState = OPEN
    /\ n \in 1..Len(sock[s].stream)
    /\ sock' = [sock EXCEPT ![s].stream = SubSeq(@, n + 1, Len(@))]
    /\ call' = IF sock[s].onmessage = 0 THEN call
               ELSE [call EXCEPT ![sock[s].onmessage] =
                        outputResponseHandler(@, SubSeq(sock[s].stream, 1, n))]
    /\ UNCHANGED <<terminalWs, nSock, disposed, storageVars, pathVars, managerVars, echoVars, configVars>>

\* an inbound message that is not a string, or not {data: string}: ignored
DeliverInvalid(s) ==
    /\ NoneReady
    /\ s <= nSock
    /\ sock[s].readyState = OPEN
    /\ sock[s].onmessage # 0
    /\ UNCHANGED vars

-----------------------------------------------------------------------------
(* Specification Spec: the life cycle of one executor.  Every entry point may  *)
(* be called at any time; the remote sends what it has in one message.         *)

\* the state the constructor leaves: void this.connect() has made the first socket
Constructed ==
    /\ terminalWs = 1
    /\ nSock = 1
    /\ sock = [s \in Socks |-> IF s = 1 THEN NewSocket(0) ELSE NoSocket]
    /\ call = [c \in Calls |-> IdleCall]
    /\ disposed = FALSE

Init ==
    /\ Constructed
    /\ NoSecrets
    /\ NoExecutors
    /\ NoCommand
    /\ StorageIdle
    /\ NoPaths

Next ==
    \/ \E c \in Calls : Execute(c)
    \/ Connect
    \/ Disconnect
    \/ Dispose
    \/ \E c \in Calls : WaitConnected(c)
    \/ \E c \in Calls : WaitTimeout(c)
    \/ \E c \in Calls : WaitReconnect(c)
    \/ \E c \in Calls : ExecuteNotInitialized(c)
    \/ \E c \in Calls : ExecuteNotReady(c)
    \/ \E c \in Calls : \E e \in {0, 1, Hangs} : ExecuteSend(c, e)
    \/ \E c \in Calls : Timeout(c)
    \/ \E s \in Socks : SocketOpen(s)
    \/ \E s \in Socks : SocketError(s)
    \/ \E s \in Socks : SocketClosed(s)
    \/ \E s \in Socks : Deliver(s, Len(sock[s].stream))
    \/ \E s \in Socks : DeliverInvalid(s)

Spec == Init /\ [][Next]_vars

-----------------------------------------------------------------------------
(* Specification SpecStream: the inbound stream of one executor whose owner    *)
(* calls nothing but execute; the remote cuts its output into messages at any  *)
(* place.                                                                      *)

\* the execute() invocations of SpecStream: one fewer than in Spec
StreamCalls == 1..(MaxCalls - 1)

NextStream ==
    \/ \E c \in StreamCalls : Execute(c)
    \/ \E c \in Calls : WaitConnected(c)
    \/ \E c \in Calls : WaitTimeout(c)
    \/ \E c \in Calls : WaitReconnect(c)
    \/ \E c \in Calls : \E e \in ExitCodes \cup {Hangs} : ExecuteSend(c, e)
    \/ \E c \in Calls : Timeout(c)
    \/ \E s \in Socks : SocketOpen(s)
    \/ \E s \in Socks : SocketError(s)
    \/ \E s \in Socks : SocketClosed(s)
    \/ \E s \in Socks : \E n \in 1..Len(sock[s].stream) : Deliver(s, n)
    \/ \E s \in Socks : DeliverInvalid(s)

SpecStream == Init /\ [][NextStream]_vars

-----------------------------------------------------------------------------
(* operations.ts: each function is resumed at one of its awaits (pc) with the  *)
(* outcome o of the awaited executor.execute(): "ok" (resolved, success),      *)
(* "fail" (resolved, success false), "throw" (rejected).  It answers with the  *)
(* next command to await, or with how it ended.                                *)

Pending(cmd, pc) ==
    [kind |-> "await", issue |-> cmd, pc |-> pc, text |-> "none", fired |-> <<>>]

Succeeded ==
    [kind |-> "success", issue |-> "none", pc |-> "none", text |-> "none",
     fired |-> <<>>]

Failure ==
    [kind |-> "failure", issue |-> "none", pc |-> "none", text |-> "none",
     fired |-> <<>>]

Throw(text) ==
    [kind |-> "throw", issue |-> "none", pc |-> "none", text |-> text,
     fired |-> <<>>]

\* return await executor.execute(...), or return the result unless it succeeded
Chain(o, next) ==
    IF o = "ok" THEN next
    ELSE IF o = "fail" THEN Failure
    ELSE Throw("execute rejected")

\* the commands of the probes that answer a boolean, false when the command
\* failed and when execute threw: isRcloneInstalled, remotePathExists,
\* isRemoteAccessible, hasRcloneConfig, bisyncStateExists
BooleanProbes ==
    {"command -v rclone", "rclone lsd", "rclone about", "test -f rclone.conf",
     "test -f bisync.lst"}

\* the outcomes a command can have on a server in state r
Outcomes(cmd, r) ==
    CASE cmd = "none" -> {"ok"}
      [] cmd = "command -v rclone" ->
            (IF r.installed THEN {"ok"} ELSE {"fail"}) \cup {"throw"}
      [] cmd = "rclone lsd" ->
            (IF r.remoteDir THEN {"ok"} ELSE {}) \cup {"fail", "throw"}
      [] cmd = "test -f rclone.conf" ->
            (IF r.hasConfig THEN {"ok"} ELSE {"fail"}) \cup {"throw"}
      [] cmd = "rclone listremotes" ->
            (IF r.hasConfig THEN {"ok"} ELSE {}) \cup {"fail", "throw"}
      [] cmd = "test -f bisync.lst" ->
            (IF r.bisyncState THEN {"ok"} ELSE {"fail"}) \cup {"throw"}
      [] OTHER -> {"ok", "fail", "throw"}

\* what a command leaves on the server
Effect(cmd, r, o) ==
    IF o # "ok" THEN r
    ELSE CASE cmd = "curl | sudo bash" -> [r EXCEPT !.installed = TRUE]
           [] cmd = "base64 -d > rclone.conf" -> [r EXCEPT !.hasConfig = TRUE]
           [] cmd = "rclone mkdir" -> [r EXCEPT !.remoteDir = TRUE]
           [] cmd = "rclone touch" -> [r EXCEPT !.remoteDir = TRUE]
           [] cmd = "rclone bisync --resync" -> [r EXCEPT !.bisyncState = TRUE]
           [] OTHER -> r

\* the command an atomic operation of operations.ts hands to execute
AtomicCommand(name) ==
    CASE name = "isRcloneInstalled" -> "command -v rclone"
      [] name = "getRcloneVersion" -> "rclone version"
      [] name = "hasRcloneConfig" -> "test -f rclone.conf"
      [] name = "listRcloneRemotes" -> "rclone listremotes"
      [] name = "isRemoteAccessible" -> "rclone about"
      [] name = "remotePathExists" -> "rclone lsd"
      [] name = "createRemoteDir" -> "rclone mkdir"
      [] name = "createLocalDir" -> "mkdir -p localPath"
      [] name = "createCheckFile" -> "rclone touch"
      [] name = "bisyncStateExists" -> "test -f bisync.lst"

AtomicOperations ==
    {"isRcloneInstalled", "getRcloneVersion", "hasRcloneConfig",
     "listRcloneRemotes", "isRemoteAccessible", "remotePathExists",
     "createRemoteDir", "createLocalDir", "createCheckFile", "bisyncStateExists"}

\* atomic operations none of which would catch what execute throws
CatchingNothing == {}

\* the atomic operations with a try/catch around execute: they answer false,
\* null or an empty list when the command failed and when execute threw
Catching ==
    {"isRcloneInstalled", "getRcloneVersion", "hasRcloneConfig",
     "listRcloneRemotes", "isRemoteAccessible", "remotePathExists",
     "bisyncStateExists"}

\* an atomic operation that would issue its command again when it failed
atomicRetrying(name, pc, o) ==
    CASE pc = "start" -> Pending(AtomicCommand(name), "atomic.first")
      [] pc = "atomic.first" ->
            IF o = "ok" THEN Succeeded
            ELSE Pending(AtomicCommand(name), "atomic.run")
      [] pc = "atomic.run" ->
            IF name \in Catching
            THEN IF o = "ok" THEN Succeeded ELSE Failure
            ELSE Chain(o, Succeeded)

\* an atomic operation resumed at pc with outcome o: one execute, whose result
\* it answers with (a boolean, a version or a list for the catching ones, the
\* CommandResult itself for the others, which let a rejection through)
atomic(name, pc, o) ==
    CASE pc = "start" -> Pending(AtomicCommand(name), "atomic.run")
      [] pc = "atomic.run" ->
            IF name \in Catching
            THEN IF o = "ok" THEN Succeeded ELSE Failure
            ELSE Chain(o, Succeeded)

\* an installRclone that would run the install command a second time when it
\* failed
installRcloneRetrying(pc, o, forceReinstall) ==
    CASE pc = "start" ->
            IF forceReinstall THEN Pending("curl | sudo bash", "install.run")
            ELSE Pending("command -v rclone", "install.probe")
      [] pc = "install.probe" ->
            IF o = "ok" THEN Pending("rclone version", "install.version")
            ELSE Pending("curl | sudo bash", "install.run")
      [] pc = "install.version" -> Succeeded
      [] pc = "install.run" ->
            IF o = "fail" THEN Pending("curl | sudo bash", "install.again")
            ELSE Chain(o, Succeeded)
      [] pc = "install.again" -> Chain(o, Succeeded)

\* installRclone(executor, forceReinstall): unless forced, isRcloneInstalled and
\* then getRcloneVersion; otherwise the install command
installRclone(pc, o, forceReinstall) ==
    CASE pc = "start" ->
            IF forceReinstall THEN Pending("curl | sudo bash", "install.run")
            ELSE Pending("command -v rclone", "install.probe")
      [] pc = "install.probe" ->
            IF o = "ok" THEN Pending("rclone version", "install.version")
            ELSE Pending("curl | sudo bash", "install.run")
      [] pc = "install.version" -> Succeeded
      [] pc = "install.run" -> Chain(o, Succeeded)

\* an uploadRcloneConfig that would set the permissions whether or not the
\* content was written
uploadRcloneConfigUnchecked(pc, o) ==
    CASE pc = "start" -> Pending("mkdir -p configDir", "upload.mkdir")
      [] pc = "upload.mkdir" ->
            Chain(o, Pending("base64 -d > rclone.conf", "upload.write"))
      [] pc = "upload.write" -> Pending("chmod 600", "upload.chmod")
      [] pc = "upload.chmod" -> Chain(o, Succeeded)

\* uploadRcloneConfig(executor, configContent)
uploadRcloneConfig(pc, o) ==
    CASE pc = "start" -> Pending("mkdir -p configDir", "upload.mkdir")
      [] pc = "upload.mkdir" ->
            Chain(o, Pending("base64 -d > rclone.conf", "upload.write"))
      [] pc = "upload.write" -> Chain(o, Pending("chmod 600", "upload.chmod"))
      [] pc = "upload.chmod" -> Chain(o, Succeeded)

\* a result without success that carries an error or a message of its own
Invalid(text) == [Failure EXCEPT !.text = text]

\* a performInitialResync that would run the resync whatever the dry run gave
performInitialResyncHeedless(pc, o, cfg) ==
    CASE pc = "start" ->
            IF cfg.remoteName THEN Pending("rclone about", "resync.about")
            ELSE Pending("rclone lsd", "resync.lsd")
      [] pc = "resync.about" ->
            IF o = "ok" THEN Pending("rclone lsd", "resync.lsd")
            ELSE Invalid("Cannot access remote")
      [] pc = "resync.lsd" ->
            IF o = "ok" THEN Pending("mkdir -p localPath", "resync.mkdirLocal")
            ELSE Pending("rclone mkdir", "resync.mkdirRemote")
      [] pc = "resync.mkdirRemote" ->
            Chain(o, Pending("mkdir -p localPath", "resync.mkdirLocal"))
      [] pc = "resync.mkdirLocal" ->
            Chain(o, Pending("rclone touch", "resync.touch"))
      [] pc = "resync.touch" ->
            Chain(o, Pending("rclone bisync --resync --dry-run", "resync.dryRun"))
      [] pc = "resync.dryRun" ->
            Pending("rclone bisync --resync", "resync.run")
      [] pc = "resync.run" -> Chain(o, Succeeded)

\* performInitialResync(executor, options)
performInitialResync(pc, o, cfg) ==
    CASE pc = "start" ->
            IF cfg.remoteName THEN Pending("rclone about", "resync.about")
            ELSE Pending("rclone lsd", "resync.lsd")
      [] pc = "resync.about" ->
            IF o = "ok" THEN Pending("rclone lsd", "resync.lsd")
            ELSE Invalid("Cannot access remote")
      [] pc = "resync.lsd" ->
            IF o = "ok" THEN Pending("mkdir -p localPath", "resync.mkdirLocal")
            ELSE Pending("rclone mkdir", "resync.mkdirRemote")
      [] pc = "resync.mkdirRemote" ->
            Chain(o, Pending("mkdir -p localPath", "resync.mkdirLocal"))
      [] pc = "resync.mkdirLocal" ->
            Chain(o, Pending("rclone touch", "resync.touch"))
      [] pc = "resync.touch" ->
            Chain(o, Pending("rclone bisync --resync --dry-run", "resync.dryRun"))
      [] pc = "resync.dryRun" ->
            Chain(o, Pending("rclone bisync --resync", "resync.run"))
      [] pc = "resync.run" -> Chain(o, Succeeded)

\* a validateRcloneSetup that would install rclone where it is missing
validateRcloneSetupRepairing(pc, o) ==
    CASE pc = "start" -> Pending("command -v rclone", "validate.probe")
      [] pc = "validate.probe" ->
            IF o = "ok" THEN Pending("rclone version", "validate.version")
            ELSE Pending("curl | sudo bash", "validate.version")
      [] pc = "validate.version" ->
            Pending("test -f rclone.conf", "validate.config")
      [] pc = "validate.config" ->
            IF o = "ok" THEN Pending("rclone listremotes", "validate.remotes")
            ELSE Invalid("rclone config file not found")
      [] pc = "validate.remotes" ->
            IF o = "ok" THEN Succeeded
            ELSE Invalid("No rclone remotes configured")

\* validateRcloneSetup(executor): isRcloneInstalled, getRcloneVersion,
\* hasRcloneConfig, listRcloneRemotes; each of them turns a rejected execute
\* into false, null or an empty list ("ok" for listremotes: a remote is listed)
validateRcloneSetup(pc, o) ==
    CASE pc = "start" -> Pending("command -v rclone", "validate.probe")
      [] pc = "validate.probe" ->
            IF o = "ok" THEN Pending("rclone version", "validate.version")
            ELSE Invalid("rclone is not installed")
      [] pc = "validate.version" ->
            Pending("test -f rclone.conf", "validate.config")
      [] pc = "validate.config" ->
            IF o = "ok" THEN Pending("rclone listremotes", "validate.remotes")
            ELSE Invalid("rclone config file not found")
      [] pc = "validate.remotes" ->
            IF o = "ok" THEN Succeeded
            ELSE Invalid("No rclone remotes configured")

\* a performBidirectionalSync that would not look at the answer of
\* bisyncStateExists
performBidirectionalSyncBlind(pc, o, cfg) ==
    CASE pc = "start" -> Pending("test -f bisync.lst", "sync.state")
      [] pc = "sync.state" -> Pending("rclone bisync", "sync.run")
      [] pc = "sync.run" -> Chain(o, Succeeded)
      [] OTHER -> performInitialResync(pc, o, cfg)

\* performBidirectionalSync(executor, options): bisyncStateExists, then the
\* incremental bisync, or performInitialResync when there is no listing
performBidirectionalSync(pc, o, cfg) ==
    CASE pc = "start" -> Pending("test -f bisync.lst", "sync.state")
      [] pc = "sync.state" ->
            IF o = "ok" THEN Pending("rclone bisync", "sync.run")
            ELSE performInitialResync("start", o, cfg)
      [] pc = "sync.run" -> Chain(o, Succeeded)
      [] OTHER -> performInitialResync(pc, o, cfg)

InstallPcs == {"install.probe", "install.version", "install.run"}

ValidatePcs ==
    {"validate.probe", "validate.version", "validate.config", "validate.remotes"}

SyncPcs == {"sync.state", "sync.run"}

UploadPcs == {"upload.mkdir", "upload.write", "upload.chmod"}

ResyncPcs ==
    {"resync.about", "resync.lsd", "resync.mkdirRemote", "resync.mkdirLocal",
     "resync.touch", "resync.dryRun", "resync.run"}

-----------------------------------------------------------------------------
(* StorageIntegration.setupOnServer *)

\* a step of an operation: the statuses it passes to updateStatus, the command
\* it then awaits, and the result if it returns
Return(fired, success, status, text) ==
    [fired |-> fired, issue |-> "none", pc |-> "done",
     ret |-> [success |-> success, status |-> status, text |-> text]]

\* a step that would go on without the caller's updateStatus
ProceedSilently(fired, r) ==
    IF r.kind = "throw"
    THEN Return(r.fired \o <<"error">>, FALSE, "error", r.text)
    ELSE [fired |-> r.fired, issue |-> r.issue, pc |-> r.pc, ret |-> NoResult]

\* a step that would let what a helper throws leave the operation: the promise
\* is rejected and the caller gets no result
ProceedRethrowing(fired, r) ==
    IF r.kind = "throw"
    THEN [fired |-> fired \o r.fired, issue |-> "none", pc |-> "done",
          ret |-> NoResult]
    ELSE [fired |-> fired \o r.fired, issue |-> r.issue, pc |-> r.pc,
          ret |-> NoResult]

\* go on with what a private helper answered; what it throws lands in the
\* catch block of setupOnServer
Proceed(fired, r) ==
    IF r.kind = "throw"
    THEN Return(fired \o r.fired \o <<"error">>, FALSE, "error", r.text)
    ELSE [fired |-> fired \o r.fired, issue |-> r.issue, pc |-> r.pc,
          ret |-> NoResult]

\* installRcloneOnServer: throws unless installRclone succeeded
installRcloneOnServer(pc, o) ==
    LET r == installRclone(pc, o, FALSE)
    IN  IF r.kind = "failure" THEN Throw("Rclone installation failed") ELSE r

\* uploadRcloneConfigToServer: updateStatus(INSTALLING) first; throws unless
\* uploadRcloneConfig succeeded
uploadRcloneConfigToServer(pc, o) ==
    LET r == uploadRcloneConfig(pc, o)
    IN  IF pc = "start" THEN [r EXCEPT !.fired = <<"installing">>]
        ELSE IF r.kind = "failure" THEN Throw("Rclone config upload failed")
        ELSE r

\* performInitialSyncOperation: throws unless performInitialResync succeeded
performInitialSyncOperation(pc, o, cfg) ==
    LET r == performInitialResync(pc, o, cfg)
    IN  IF r.kind = "failure" THEN Throw("Initial sync failed") ELSE r

\* a checkIfSetup that never finds the server set up
checkIfSetupNever(o) == FALSE

\* checkIfSetup: isRcloneInstalled, true when `command -v rclone` succeeded and
\* false when it failed or execute threw
checkIfSetup(o) == o = "ok"

\* setupOnServer resumed at pc with outcome o; cfg is the config it read, now
\* the config validateWorkspace() reads
setupOnServer(pc, o, cfg, now) ==
    CASE pc = "get" ->
            IF ~cfg.enabled
            THEN Return(<<"not_configured">>, FALSE, "not_configured",
                        "Storage not configured")
            ELSE Proceed(<<>>, Pending("none", "validateWorkspace"))
      [] pc = "validateWorkspace" ->
            IF ~now.workspace
            THEN Return(<<"error">>, FALSE, "error", "workspace mismatch")
            ELSE Proceed(<<"checking">>,
                         Pending("command -v rclone", "checkIfSetup"))
      [] pc = "checkIfSetup" ->
            IF checkIfSetup(o)
            THEN Return(<<"ready">>, TRUE, "ready", "Storage already configured")
            ELSE Proceed(<<"installing">>, installRcloneOnServer("start", o))
      [] pc \in InstallPcs ->
            LET r == installRcloneOnServer(pc, o)
            IN  IF r.kind # "success" THEN Proceed(<<>>, r)
                ELSE IF ~cfg.content
                THEN Proceed(<<>>, Throw("Rclone config content is missing"))
                ELSE Proceed(<<>>, uploadRcloneConfigToServer("start", o))
      [] pc \in UploadPcs ->
            LET r == uploadRcloneConfigToServer(pc, o)
            IN  IF r.kind # "success" THEN Proceed(<<>>, r)
                ELSE Proceed(<<"syncing">>,
                             performInitialSyncOperation("start", o, cfg))
      [] pc \in ResyncPcs ->
            LET r == performInitialSyncOperation(pc, o, cfg)
            IN  IF r.kind # "success" THEN Proceed(<<>>, r)
                ELSE Return(<<"ready">>, TRUE, "ready",
                            "Storage configured successfully")

\* syncNow resumed at pc with outcome o; cfg is the config it read, current
\* what getStatus(serverId) gives, now the config storageConfigManager.update()
\* finds.  The Error thrown for a result without success reads "Sync failed: "
\* and then result.error, or "Sync failed" for a result that has no error; the
\* text kept here is what follows the prefix.
syncNow(pc, o, cfg, current, now) ==
    CASE pc = "get" ->
            IF ~cfg.enabled
            THEN Return(<<>>, FALSE, "not_configured", "Storage not configured")
            ELSE IF current # "ready"
            THEN Return(<<>>, FALSE, current, "Storage not ready for sync")
            ELSE Proceed(<<"syncing">>, performBidirectionalSync("start", o, cfg))
      [] pc = "update" ->
            IF now.defined
            THEN Return(<<>>, TRUE, "ready", "Sync completed successfully")
            ELSE Proceed(<<>>,
                         Throw("No existing storage configuration to update"))
      [] OTHER ->
            LET r == performBidirectionalSync(pc, o, cfg)
            IN  IF r.kind = "failure"
                THEN Proceed(<<>>, Throw(IF r.text = "none" THEN "Sync failed"
                                         ELSE r.text))
                ELSE IF r.kind # "success" THEN Proceed(<<>>, r)
                ELSE Proceed(<<"ready">>, Pending("none", "update"))

\* validateSetup resumed at pc with outcome o
validateSetup(pc, o, cfg) ==
    CASE pc = "get" ->
            IF ~cfg.enabled
            THEN Return(<<"not_configured">>, FALSE, "not_configured",
                        "Storage not configured in workspace")
            ELSE Proceed(<<>>, validateRcloneSetup("start", o))
      [] OTHER ->
            LET r == validateRcloneSetup(pc, o)
            IN  IF r.kind = "failure"
                THEN Return(<<"setup_required">>, FALSE, "setup_required", r.text)
                ELSE IF r.kind # "success" THEN Proceed(<<>>, r)
                ELSE Return(<<"ready">>, TRUE, "ready", "rclone setup valid")

\* a checkAndInitializeStatus that would re-check in every status
SkipCheckNothing == {}

\* the statuses in which checkAndInitializeStatus returns at once
SkipCheck == {"checking", "installing", "syncing", "ready"}

\* checkAndInitializeStatus resumed at pc with outcome o
checkAndInitializeStatus(pc, o, cfg) ==
    CASE pc = "get" ->
            IF ~cfg.enabled
            THEN Return(<<"not_configured">>, FALSE, "not_configured",
                        "Storage not configured")
            ELSE Proceed(<<>>, validateRcloneSetup("start", o))
      [] OTHER ->
            LET r == validateRcloneSetup(pc, o)
            IN  IF r.kind = "failure"
                THEN Return(<<"setup_required">>, FALSE, "setup_required", r.text)
                ELSE IF r.kind # "success" THEN Proceed(<<>>, r)
                ELSE Return(<<"ready">>, TRUE, "ready", "rclone setup valid")

\* updateStatus(serverId, status) for each status of fired: set the map's entry
\* and fire the event
updateStatus(map, serverId, fired) ==
    IF fired = <<>> THEN map
    ELSE [map EXCEPT ![serverId] = fired[Len(fired)]]

\* setupOnServer(executor) is invoked for the executor of server sv
SetupOnServer(f, sv) ==
    /\ flow[f].op = "idle"
    /\ \A g \in Flows : g < f => flow[g].op # "idle"
    /\ flow' = [flow EXCEPT ![f] = [IdleFlow EXCEPT !.op = "setupOnServer",
                                                    !.server = sv,
                                                    !.pc = "get"]]
    /\ UNCHANGED <<serverSetupStatus, lastEvent, config, lastSync, remote,
                   execVars, pathVars, managerVars, echoVars, configVars>>

\* The await of flow f settles with outcome o and the flow runs the step to its
\* next await or to its return: updateStatus for each status fired, the next
\* command issued, the command's effect left on the server.
Advance(f, o, step) ==
    LET sv == flow[f].server
        wrote == flow[f].op = "syncNow" /\ flow[f].pc = "update" /\ step.ret.success
    IN  /\ flow' = [flow EXCEPT
                       ![f].pc = step.pc,
                       ![f].awaiting = step.issue,
                       ![f].config = IF flow[f].pc = "get" THEN config ELSE @,
                       ![f].ret = step.ret,
                       ![f].events = @ \o step.fired,
                       ![f].cmds = IF step.issue = "none" THEN @
                                   ELSE Append(@, step.issue),
                       ![f].failed = IF flow[f].awaiting = "none" \/ o = "ok" THEN @
                                     ELSE flow[f].awaiting,
                       ![f].report = IF flow[f].awaiting = "none" \/ o = "ok" THEN @
                                     ELSE IF flow[f].awaiting \in BooleanProbes
                                     THEN "false"
                                     ELSE IF o = "throw" THEN "execute rejected"
                                     ELSE "command output",
                       ![f].wrote = @ \/ wrote]
        /\ serverSetupStatus' = updateStatus(serverSetupStatus, sv, step.fired)
        /\ lastEvent' = updateStatus(lastEvent, sv, step.fired)
        /\ remote' = [remote EXCEPT ![sv] = Effect(flow[f].awaiting, @, o)]
        /\ lastSync' = (lastSync \/ wrote)
        /\ UNCHANGED <<config, execVars>>

\* the await of setupOnServer settles with outcome o, and setupOnServer runs
\* to its next await or to its return
SetupResume(f, o) ==
    /\ flow[f].op = "setupOnServer"
    /\ flow[f].pc \notin {"idle", "done"}
    /\ o \in Outcomes(flow[f].awaiting, remote[flow[f].server])
    /\ LET cfg == IF flow[f].pc = "get" THEN config ELSE flow[f].config
       IN  Advance(f, o, setupOnServer(flow[f].pc, o, cfg, config))
    /\ UNCHANGED <<pathVars, managerVars, echoVars, configVars>>

\* syncNow(executor) is invoked for the executor of server sv
SyncNow(f, sv) ==
    /\ flow[f].op = "idle"
    /\ \A g \in Flows : g < f => flow[g].op # "idle"
    /\ flow' = [flow EXCEPT ![f] = [IdleFlow EXCEPT !.op = "syncNow",
                                                    !.server = sv,
                                                    !.pc = "get",
                                                    !.entry = getStatus(sv)]]
    /\ UNCHANGED <<serverSetupStatus, lastEvent, config, lastSync, remote,
                   execVars, pathVars, managerVars, echoVars, configVars>>

\* an await of syncNow settles with outcome o
SyncResume(f, o) ==
    /\ flow[f].op = "syncNow"
    /\ flow[f].pc \notin {"idle", "done"}
    /\ o \in Outcomes(flow[f].awaiting, remote[flow[f].server])
    /\ LET cfg == IF flow[f].pc = "get" THEN config ELSE flow[f].config
       IN  Advance(f, o, syncNow(flow[f].pc, o, cfg,
                                 getStatus(flow[f].server), config))
    /\ UNCHANGED <<pathVars, managerVars, echoVars, configVars>>

\* validateSetup(executor) is invoked for the executor of server sv
ValidateSetup(f, sv) ==
    /\ flow[f].op = "idle"
    /\ \A g \in Flows : g < f => flow[g].op # "idle"
    /\ flow' = [flow EXCEPT ![f] = [IdleFlow EXCEPT !.op = "validateSetup",
                                                    !.server = sv,
                                                    !.pc = "get"]]
    /\ UNCHANGED <<serverSetupStatus, lastEvent, config, lastSync, remote,
                   execVars, pathVars, managerVars, echoVars, configVars>>

\* an await of validateSetup settles with outcome o
ValidateResume(f, o) ==
    /\ flow[f].op = "validateSetup"
    /\ flow[f].pc \notin {"idle", "done"}
    /\ o \in Outcomes(flow[f].awaiting, remote[flow[f].server])
    /\ LET cfg == IF flow[f].pc = "get" THEN config ELSE flow[f].config
       IN  Advance(f, o, validateSetup(flow[f].pc, o, cfg))
    /\ UNCHANGED <<pathVars, managerVars, echoVars, configVars>>

\* checkAndInitializeStatus(executor) is invoked for the executor of server sv:
\* it returns at once in a transient state or in READY, with success and status
\* only; otherwise it sets CHECKING and awaits the config
CheckAndInitializeStatus(f, sv) ==
    /\ flow[f].op = "idle"
    /\ \A g \in Flows : g < f => flow[g].op # "idle"
    /\ LET current == serverSetupStatus[sv]
           started == [IdleFlow EXCEPT !.op = "checkAndInitializeStatus",
                                       !.server = sv,
                                       !.entry = getStatus(sv)]
       IN  IF current \in SkipCheck
           THEN /\ flow' = [flow EXCEPT ![f] =
                               [started EXCEPT
                                   !.pc = "done",
                                   !.ret = [success |-> current = "ready",
                                            status |-> current,
                                            text |-> "none"]]]
                /\ UNCHANGED <<serverSetupStatus, lastEvent>>
           ELSE /\ flow' = [flow EXCEPT ![f] =
                               [started EXCEPT !.pc = "get",
                                               !.events = <<"checking">>]]
                /\ serverSetupStatus' =
                       updateStatus(serverSetupStatus, sv, <<"checking">>)
                /\ lastEvent' = updateStatus(lastEvent, sv, <<"checking">>)
    /\ UNCHANGED <<config, lastSync, remote, execVars, pathVars, managerVars, echoVars, configVars>>

\* an await of checkAndInitializeStatus settles with outcome o
CheckResume(f, o) ==
    /\ flow[f].op = "checkAndInitializeStatus"
    /\ flow[f].pc \notin {"idle", "done"}
    /\ o \in Outcomes(flow[f].awaiting, remote[flow[f].server])
    /\ LET cfg == IF flow[f].pc = "get" THEN config ELSE flow[f].config
       IN  Advance(f, o, checkAndInitializeStatus(flow[f].pc, o, cfg))
    /\ UNCHANGED <<pathVars, managerVars, echoVars, configVars>>

\* storageConfigManager.delete(): the persisted configuration is gone
DeleteConfig ==
    /\ config.defined
    /\ config' = Undefined
    /\ lastSync' = FALSE
    /\ UNCHANGED <<serverSetupStatus, lastEvent, remote, flow, execVars, pathVars, managerVars, echoVars, configVars>>

\* a removeServer that would clear the whole map
removeAllServers(serverId) ==
    /\ serverSetupStatus' = [sv \in Servers |-> Absent]
    /\ UNCHANGED <<lastEvent, config, lastSync, remote, flow, execVars, pathVars, managerVars, echoVars, configVars>>

\* removeServer(serverId): the map's entry is deleted, no event is fired
removeServer(serverId) ==
    /\ serverSetupStatus' = [serverSetupStatus EXCEPT ![serverId] = Absent]
    /\ UNCHANGED <<lastEvent, config, lastSync, remote, flow, execVars, pathVars, managerVars, echoVars, configVars>>

-----------------------------------------------------------------------------
(* Specification SpecStorage: one StorageIntegration over servers found in any *)
(* state, with any stored configuration.                                       *)

InitStorage ==
    /\ Constructed
    /\ NoSecrets
    /\ NoExecutors
    /\ NoCommand
    /\ NoPaths
    /\ serverSetupStatus = [sv \in Servers |-> Absent]
    /\ lastEvent = [sv \in Servers |-> "none"]
    /\ config \in Configs
    /\ lastSync = FALSE
    /\ remote \in [Servers -> Remotes]
    /\ flow = [f \in Flows |-> IdleFlow]

NextStorage ==
    \/ \E f \in StorageFlows : \E sv \in Servers : SetupOnServer(f, sv)
    \/ \E f \in StorageFlows : \E o \in {"ok", "fail", "throw"} : SetupResume(f, o)
    \/ \E sv \in Servers : removeServer(sv)

SpecStorage == InitStorage /\ [][NextStorage]_vars

-----------------------------------------------------------------------------
(* Specification SpecOps: every operation of StorageIntegration, invoked on a  *)
(* StorageIntegration whose status map holds what earlier operations left or   *)
(* what operations still in flight have set.                                   *)

InitOps ==
    /\ Constructed
    /\ NoSecrets
    /\ NoExecutors
    /\ NoCommand
    /\ NoPaths
    /\ serverSetupStatus \in [Servers -> StorageStatus \cup {Absent}]
    /\ serverSetupStatus["s2"] \in {Absent, "ready"}
    /\ lastEvent = [sv \in Servers |->
                       IF serverSetupStatus[sv] = Absent THEN "none"
                       ELSE serverSetupStatus[sv]]
    /\ config \in Configs
    /\ lastSync = FALSE
    /\ \E r \in Remotes : remote = [sv \in Servers |-> r]
    /\ flow = [f \in Flows |-> IdleFlow]

NextOps ==
    \/ \E f \in StorageFlows : \E sv \in Servers : SetupOnServer(f, sv)
    \/ \E f \in StorageFlows : \E o \in {"ok", "fail", "throw"} : SetupResume(f, o)
    \/ \E f \in StorageFlows : \E sv \in Servers : SyncNow(f, sv)
    \/ \E f \in StorageFlows : \E o \in {"ok", "fail", "throw"} : SyncResume(f, o)
    \/ \E f \in StorageFlows : \E sv \in Servers : ValidateSetup(f, sv)
    \/ \E f \in StorageFlows : \E o \in {"ok", "fail", "throw"} : ValidateResume(f, o)
    \/ \E f \in StorageFlows : \E sv \in Servers : CheckAndInitializeStatus(f, sv)
    \/ \E f \in StorageFlows : \E o \in {"ok", "fail", "throw"} : CheckResume(f, o)
    \/ DeleteConfig
    \/ \E sv \in Servers : removeServer(sv)

SpecOps == InitOps /\ [][NextOps]_vars

-----------------------------------------------------------------------------
(* Specification SpecProbe: the operations that only look at a server,         *)
(* validateSetup and checkAndInitializeStatus, and removeServer, from the      *)
(* states of SpecOps.                                                          *)

NextProbe ==
    \/ \E f \in StorageFlows : \E sv \in Servers : ValidateSetup(f, sv)
    \/ \E f \in StorageFlows : \E o \in {"ok", "fail", "throw"} : ValidateResume(f, o)
    \/ \E f \in StorageFlows : \E sv \in Servers : CheckAndInitializeStatus(f, sv)
    \/ \E f \in StorageFlows : \E o \in {"ok", "fail", "throw"} : CheckResume(f, o)
    \/ DeleteConfig
    \/ \E sv \in Servers : removeServer(sv)

SpecProbe == InitOps /\ [][NextProbe]_vars

-----------------------------------------------------------------------------
(* Specification SpecSync: overlapping syncNow and validateSetup calls on one  *)
(* server that a setup has left READY.                                         *)

InitSync ==
    /\ Constructed
    /\ NoSecrets
    /\ NoExecutors
    /\ NoCommand
    /\ NoPaths
    /\ serverSetupStatus = [sv \in Servers |-> IF sv = "s1" THEN "ready" ELSE Absent]
    /\ lastEvent = [sv \in Servers |-> IF sv = "s1" THEN "ready" ELSE "none"]
    /\ config = Enabled
    /\ lastSync = FALSE
    /\ remote = [sv \in Servers |-> Provisioned]
    /\ flow = [f \in Flows |-> IdleFlow]

NextSync ==
    \/ \E f \in Flows : SyncNow(f, "s1")
    \/ \E f \in Flows : \E o \in {"ok", "fail", "throw"} : SyncResume(f, o)
    \/ \E f \in Flows : ValidateSetup(f, "s1")
    \/ \E f \in Flows : \E o \in {"ok", "fail", "throw"} : ValidateResume(f, o)

SpecSync == InitSync /\ [][NextSync]_vars

(* Specification SpecOperations: the functions of operations.ts, each invoked  *)
(* by itself on a server found in any state.                                   *)

Composites ==
    {"installRclone", "installRclone.force", "uploadRcloneConfig",
     "performInitialResync", "performBidirectionalSync"}

\* function name of operations.ts resumed at pc with outcome o
operation(name, pc, o, cfg) ==
    CASE name \in AtomicOperations -> atomic(name, pc, o)
      [] name = "installRclone" -> installRclone(pc, o, FALSE)
      [] name = "installRclone.force" -> installRclone(pc, o, TRUE)
      [] name = "uploadRcloneConfig" -> uploadRcloneConfig(pc, o)
      [] name = "performInitialResync" -> performInitialResync(pc, o, cfg)
      [] name = "performBidirectionalSync" -> performBidirectionalSync(pc, o, cfg)

\* what the caller of a function of operations.ts gets: the next await, or the
\* promise settled, resolved with an answer or rejected
Settle(r) ==
    IF r.kind = "await"
    THEN [fired |-> <<>>, issue |-> r.issue, pc |-> r.pc, ret |-> NoResult]
    ELSE Return(<<>>, r.kind = "success",
                IF r.kind = "throw" THEN "rejected" ELSE "resolved", r.text)

\* a function of operations.ts is called with the executor of server sv
Invoke(f, name, sv) ==
    /\ flow[f].op = "idle"
    /\ \A g \in Flows : g < f => flow[g].op # "idle"
    /\ flow' = [flow EXCEPT ![f] = [IdleFlow EXCEPT !.op = name,
                                                    !.server = sv,
                                                    !.pc = "start"]]
    /\ UNCHANGED <<serverSetupStatus, lastEvent, config, lastSync, remote,
                   execVars, pathVars, managerVars, echoVars, configVars>>

\* the function runs to its next await, or the await of its command settles
\* with outcome o
OperationResume(f, o) ==
    /\ flow[f].op \in AtomicOperations \cup Composites
    /\ flow[f].pc \notin {"idle", "done"}
    /\ o \in Outcomes(flow[f].awaiting, remote[flow[f].server])
    /\ Advance(f, o, Settle(operation(flow[f].op, flow[f].pc, o, config)))
    /\ UNCHANGED <<pathVars, managerVars, echoVars, configVars>>

InitOperations ==
    /\ Constructed
    /\ NoSecrets
    /\ NoExecutors
    /\ NoCommand
    /\ NoPaths
    /\ serverSetupStatus = [sv \in Servers |-> Absent]
    /\ lastEvent = [sv \in Servers |-> "none"]
    /\ config \in {Enabled, [Enabled EXCEPT !.remoteName = FALSE]}
    /\ lastSync = FALSE
    /\ \E r \in [installed : BOOLEAN, hasConfig : BOOLEAN, remoteDir : BOOLEAN,
                  bisyncState : BOOLEAN] : remote = [sv \in Servers |-> r]
    /\ flow = [f \in Flows |-> IdleFlow]

NextOperations ==
    \/ \E f \in StorageFlows : \E name \in AtomicOperations \cup Composites :
           Invoke(f, name, "s1")
    \/ \E f \in StorageFlows : \E o \in {"ok", "fail", "throw"} :
           OperationResume(f, o)

SpecOperations == InitOperations /\ [][NextOperations]_vars

(* Specification SpecRace: setupOnServer and validateSetup calls that overlap   *)
(* on one server, fresh or provisioned, with the configuration enabled.        *)

InitRace ==
    /\ Constructed
    /\ NoSecrets
    /\ NoExecutors
    /\ NoCommand
    /\ NoPaths
    /\ serverSetupStatus = [sv \in Servers |-> Absent]
    /\ lastEvent = [sv \in Servers |-> "none"]
    /\ config = Enabled
    /\ lastSync = FALSE
    /\ \E r \in {Fresh, Provisioned} : remote = [sv \in Servers |-> r]
    /\ flow = [f \in Flows |-> IdleFlow]

NextRace ==
    \/ \E f \in RaceFlows : SetupOnServer(f, "s1")
    \/ \E f \in RaceFlows : \E o \in {"ok", "fail", "throw"} : SetupResume(f, o)
    \/ \E f \in RaceFlows : ValidateSetup(f, "s1")
    \/ \E f \in RaceFlows : \E o \in {"ok", "fail", "throw"} : ValidateResume(f, o)

SpecRace == InitRace /\ [][NextRace]_vars

(* Specification SpecBusy: a first call of setupOnServer, syncNow or            *)
(* checkAndInitializeStatus on one server, and further calls of setupOnServer  *)
(* or validateSetup invoked for that server while its status is CHECKING,      *)
(* INSTALLING or SYNCING.                                                      *)

Busy == {"checking", "installing", "syncing"}

InitBusy ==
    /\ Constructed
    /\ NoSecrets
    /\ NoExecutors
    /\ NoCommand
    /\ NoPaths
    /\ serverSetupStatus \in {[sv \in Servers |-> Absent],
                              [sv \in Servers |-> IF sv = "s1" THEN "ready" ELSE Absent]}
    /\ lastEvent = [sv \in Servers |->
                       IF serverSetupStatus[sv] = Absent THEN "none"
                       ELSE serverSetupStatus[sv]]
    /\ config = Enabled
    /\ lastSync = FALSE
    /\ \E r \in {Fresh, Provisioned} : remote = [sv \in Servers |-> r]
    /\ flow = [f \in Flows |-> IdleFlow]

NextBusy ==
    \/ SetupOnServer(1, "s1")
    \/ SyncNow(1, "s1")
    \/ CheckAndInitializeStatus(1, "s1")
    \/ \E f \in RaceFlows \ {1} :
           getStatus("s1") \in Busy /\ SetupOnServer(f, "s1")
    \/ \E f \in RaceFlows \ {1} :
           getStatus("s1") \in Busy /\ ValidateSetup(f, "s1")
    \/ \E f \in RaceFlows : \E o \in {"ok", "fail", "throw"} : SetupResume(f, o)
    \/ \E f \in RaceFlows : \E o \in {"ok", "fail", "throw"} : SyncResume(f, o)
    \/ \E f \in RaceFlows : \E o \in {"ok", "fail", "throw"} : ValidateResume(f, o)
    \/ \E f \in RaceFlows : \E o \in {"ok", "fail", "throw"} : CheckResume(f, o)

SpecBusy == InitBusy /\ [][NextBusy]_vars

-----------------------------------------------------------------------------
(* The framed command line and what the terminal sends back for it.            *)

\* a buildCommand whose line would carry the exit status already expanded
buildCommandExpanded(cmd) ==
    <<"(", " ">> \o cmd
        \o <<" ", ")", ";", " ", "r", "c", "=", "$", "?", ";", " ", "e", "c", "h", "o", " ", "\"">>
        \o MARKER \o ExitPrefix \o <<"0", "\"", CR>>

\* buildCommand(cmd, args): `( ${command} ); rc=$?; echo "${MARKER}:exit=$rc"\r`
buildCommand(cmd) ==
    <<"(", " ">> \o cmd
        \o <<" ", ")", ";", " ", "r", "c", "=", "$", "?", ";", " ", "e", "c", "h", "o", " ", "\"">>
        \o MARKER \o ExitPrefix \o <<"$", "r", "c", "\"", CR>>

\* the terminal echoes the line as it was typed, after a control sequence and
\* with a line feed after the carriage return, in two messages cut at any place
EchoChunks(line, cut) ==
    <<<<ESC>> \o SubSeq(line, 1, cut), SubSeq(line, cut + 1, Len(line)) \o <<LF>>>>

(* Specification SpecEcho: one framed command; the terminal echoes the line,   *)
(* then the shell prints the marker line; the handler of execute looks at      *)
(* each message with isCmdDone(prettifyOutput(data)).                          *)

\* the longest command text drawn
MaxCmdLen == 2

\* characters of a command: a letter, a blank, a digit, and the two signs the
\* frame puts around the exit status
CmdChars == {"a", " ", "0", "=", "$"}

Commands == UNION {[1..n -> CmdChars] : n \in 1..MaxCmdLen}

\* the echo of the framed line arrives in two messages
EchoArrives(cut) ==
    /\ verdicts = <<>>
    /\ verdicts' =
           [k \in 1..2 |->
               [of |-> "echo",
                result |-> isCmdDone(prettifyOutput(
                               EchoChunks(buildCommand(command), cut)[k]))]]
    /\ UNCHANGED <<command, execVars, storageVars, pathVars, managerVars, configVars>>

\* the command has ended with status e and the marker line arrives
MarkerArrives(e) ==
    /\ Len(verdicts) = 2
    /\ verdicts' = Append(verdicts,
                          [of |-> "marker",
                           result |-> isCmdDone(prettifyOutput(Response(e)))])
    /\ UNCHANGED <<command, execVars, storageVars, pathVars, managerVars, configVars>>

InitEcho ==
    /\ Constructed
    /\ NoSecrets
    /\ NoExecutors
    /\ StorageIdle
    /\ NoPaths
    /\ command \in Commands
    /\ verdicts = <<>>

NextEcho ==
    \/ \E cut \in 0..Len(buildCommand(command)) : EchoArrives(cut)
    \/ \E e \in ExitCodes : MarkerArrives(e)

SpecEcho == InitEcho /\ [][NextEcho]_vars

-----------------------------------------------------------------------------
(* ExecutorManager.  An executor is known by the server it was made for and    *)
(* by how often its dispose() was called.                                      *)

\* a getOrCreateExecutor that would construct an executor at every call
getOrCreateExecutorAnew(sv, connectionInformation) ==
    /\ connectionInformation
    /\ Len(instance) < MaxExecutors
    /\ instance' = Append(instance, [server |-> sv, disposals |-> 0])
    /\ executors' = [executors EXCEPT ![sv] = Len(instance) + 1]
    /\ handed' = [server |-> sv, executor |-> Len(instance) + 1]

\* getOrCreateExecutor(server): the registered executor, or a new one, which
\* is registered unless its constructor throws for want of connection
\* information
getOrCreateExecutor(sv, connectionInformation) ==
    IF executors[sv] # 0
    THEN /\ handed' = [server |-> sv, executor |-> executors[sv]]
         /\ UNCHANGED <<executors, instance>>
    ELSE IF ~connectionInformation
    THEN /\ handed' = NotHanded
         /\ UNCHANGED <<executors, instance>>
    ELSE /\ Len(instance) < MaxExecutors
         /\ instance' = Append(instance, [server |-> sv, disposals |-> 0])
         /\ executors' = [executors EXCEPT ![sv] = Len(instance) + 1]
         /\ handed' = [server |-> sv, executor |-> Len(instance) + 1]

GetOrCreateExecutor(sv, connectionInformation) ==
    /\ getOrCreateExecutor(sv, connectionInformation)
    /\ UNCHANGED <<execVars, storageVars, pathVars, echoVars, configVars>>

\* removeExecutor(serverId): dispose() of the registered executor, then delete
RemoveExecutor(sv) ==
    /\ executors[sv] # 0
    /\ instance' = [instance EXCEPT ![executors[sv]].disposals = @ + 1]
    /\ executors' = [executors EXCEPT ![sv] = 0]
    /\ handed' = NotHanded
    /\ UNCHANGED <<execVars, storageVars, pathVars, echoVars, configVars>>

\* removeExecutor(serverId) when nothing is registered for the id
RemoveNothing(sv) ==
    /\ executors[sv] = 0
    /\ handed' = NotHanded
    /\ UNCHANGED <<executors, instance, execVars, storageVars, pathVars, echoVars, configVars>>

\* ExecutorManager.dispose(): dispose() of every registered executor, then clear
DisposeAll ==
    /\ instance' = [i \in 1..Len(instance) |->
                       IF \E sv \in Servers : executors[sv] = i
                       THEN [instance[i] EXCEPT !.disposals = @ + 1]
                       ELSE instance[i]]
    /\ executors' = [sv \in Servers |-> 0]
    /\ handed' = NotHanded
    /\ UNCHANGED <<execVars, storageVars, pathVars, echoVars, configVars>>

(* Specification SpecManager: any sequence of calls on one ExecutorManager.    *)

InitManager ==
    /\ Constructed
    /\ NoSecrets
    /\ NoExecutors
    /\ NoCommand
    /\ StorageIdle
    /\ NoPaths

NextManager ==
    \/ \E sv \in Servers : \E info \in BOOLEAN : GetOrCreateExecutor(sv, info)
    \/ \E sv \in Servers : RemoveExecutor(sv)
    \/ \E sv \in Servers : RemoveNothing(sv)
    \/ DisposeAll

SpecManager == InitManager /\ [][NextManager]_vars

-----------------------------------------------------------------------------
(* sanitizePathForBisync.  A string is the sequence of its characters.         *)

\* .replace(/^_+/, ''): the underscores at the start are dropped
RECURSIVE StripLeadingUnderscores(_)
StripLeadingUnderscores(s) ==
    IF s # <<>> /\ Head(s) = "_" THEN StripLeadingUnderscores(Tail(s)) ELSE s

\* .replace(/_+/g, '_'): every longest run of underscores becomes one
RECURSIVE CollapseUnderscores(_)
CollapseUnderscores(s) ==
    IF s = <<>> THEN <<>>
    ELSE IF Head(s) = "_"
    THEN <<"_">> \o CollapseUnderscores(StripLeadingUnderscores(Tail(s)))
    ELSE <<Head(s)>> \o CollapseUnderscores(Tail(s))

\* a sanitizePathForBisync that would leave the runs of underscores as they are
sanitizePathForBisyncUncollapsed(p) ==
    StripLeadingUnderscores(
        [i \in 1..Len(p) |-> IF p[i] \in {"/", ":"} THEN "_" ELSE p[i]])

\* sanitizePathForBisync(path): .replace(/[/:]/g, '_'), then the two above
sanitizePathForBisync(p) ==
    StripLeadingUnderscores(CollapseUnderscores(
        [i \in 1..Len(p) |-> IF p[i] \in {"/", ":"} THEN "_" ELSE p[i]]))

(* Specification SpecSanitize: sanitizePathForBisync called, more than once,   *)
(* on a string over the characters it tells apart.                             *)

\* the longest path drawn
MaxPathLen == 4

\* how often sanitizePathForBisync is called on the path
MaxSanitize == 2

\* the two characters replaced, the underscore, and two characters kept
PathChars == {"/", ":", "_", "-", "a"}

Paths == UNION {[1..n -> PathChars] : n \in 0..MaxPathLen}

\* '/content/abc-123', 'drive1:/per/testing/t1', '///a/b'
ExamplePaths ==
    {<<"/", "c", "o", "n", "t", "e", "n", "t", "/", "a", "b", "c", "-", "1", "2", "3">>,
     <<"d", "r", "i", "v", "e", "1", ":", "/", "p", "e", "r", "/", "t", "e", "s", "t", "i", "n", "g", "/", "t", "1">>,
     <<"/", "/", "/", "a", "/", "b">>}

\* sanitizePathForBisync(path) is called and returns
SanitizePath ==
    /\ Len(sanitized) < MaxSanitize
    /\ sanitized' = Append(sanitized, sanitizePathForBisync(path))
    /\ UNCHANGED <<path, options, listings, execVars, storageVars, managerVars, echoVars, configVars>>

InitSanitize ==
    /\ Constructed
    /\ NoSecrets
    /\ NoExecutors
    /\ NoCommand
    /\ StorageIdle
    /\ path \in Paths \cup ExamplePaths
    /\ sanitized = <<>>
    /\ options = NoOptions
    /\ listings = {}

NextSanitize == SanitizePath

SpecSanitize == InitSanitize /\ [][NextSanitize]_vars

-----------------------------------------------------------------------------
(* The paths in the sync commands and the listing of a path pair.              *)

\* DEFAULT_LOCAL_PATH, '/content/project', shortened to '/a/a'
DefaultLocalPath == <<"/", "a", "/", "a">>

\* getLocalPath(serverId): the default path, '_', and the server id with every
\* character outside [a-zA-Z0-9-] replaced by '_'
getLocalPath(serverId) ==
    DefaultLocalPath \o <<"_">>
        \o [i \in 1..Len(serverId) |->
               IF serverId[i] \in {"a", "-"} THEN serverId[i] ELSE "_"]

\* remotePath.split(':')[0]: what stands before the first colon, the whole
\* path when it has none
RECURSIVE remoteNameOf(_)
remoteNameOf(p) ==
    IF p = <<>> \/ Head(p) = ":" THEN <<>>
    ELSE <<Head(p)>> \o remoteNameOf(Tail(p))

\* a bisyncStateExists that would take the remote path for path1
stateFileRemoteFirst(localPath, remotePath) ==
    sanitizePathForBisync(remotePath) \o <<".", ".">>
        \o sanitizePathForBisync(localPath) \o <<".path1.lst">>

\* the file bisyncStateExists(executor, localPath, remotePath) tests for, under
\* $HOME/.cache/rclone/bisync/
stateFile(localPath, remotePath) ==
    sanitizePathForBisync(localPath) \o <<".", ".">>
        \o sanitizePathForBisync(remotePath) \o <<".path1.lst">>

\* the two paths of `rclone bisync "${localPath}" "${remotePath}" ...`, as the
\* dry run, the resync and the incremental bisync are written
bisyncCmd(opts) == [path1 |-> opts.localPath, path2 |-> opts.remotePath]

RESYNC_FLAG == <<"--resync-mode path2">>

\* buildRcloneFlags(options), with verbose set and no excludePatterns given: -v,
\* the default exclude patterns, then options.additionalFlags or, when there
\* are none, the default bisync arguments
buildRcloneFlags(opts) ==
    <<"-v", "--exclude defaults">>
        \o (IF opts.additionalFlags = "undefined" THEN <<"safe bisync defaults">>
            ELSE opts.additionalFlags)

\* the listing rclone leaves for a bisync of path1 with path2: named
\* <sanitized_path1>..<sanitized_path2>.path1.lst
Listing(path1, path2) ==
    sanitizePathForBisync(path1) \o <<".", ".">>
        \o sanitizePathForBisync(path2) \o <<".path1.lst">>

(* Specification SpecPaths: performInitialResync and performBidirectionalSync  *)
(* called one after the other for one path pair, on a server whose bisync      *)
(* cache is empty.                                                             *)

\* the local paths of the servers whose id is one character
LocalPaths == {getLocalPath(id) : id \in {p \in Paths : Len(p) = 1}}

\* remoteRootPath: a non-empty string, here of two characters, with a remote
\* name or with none
RemotePaths == {p \in Paths : Len(p) = 2 /\ p[1] \in {"a", ":"}}

\* a sync function of operations.ts is called when no other call is under way
InvokeNext(f, name) ==
    /\ \A g \in Flows : flow[g].pc \in {"idle", "done"}
    /\ Invoke(f, name, "s1")

\* the await of a command settles with outcome o: the test for the listing
\* finds it or not, or is rejected; a resync that succeeded has left the
\* listing of its two paths; performInitialResync, past its check file, does
\* options.additionalFlags ??= [] and pushes RESYNC_FLAG onto it
BisyncResume(f, o) ==
    /\ flow[f].op \in {"performInitialResync", "performBidirectionalSync"}
    /\ flow[f].pc \notin {"idle", "done"}
    /\ IF flow[f].awaiting = "test -f bisync.lst"
       THEN o \in {IF stateFile(options.localPath, options.remotePath) \in listings
                   THEN "ok" ELSE "fail", "throw"}
       ELSE o \in Outcomes(flow[f].awaiting, remote[flow[f].server])
    /\ Advance(f, o, Settle(operation(flow[f].op, flow[f].pc, o, config)))
    /\ listings' =
           IF flow[f].awaiting = "rclone bisync --resync" /\ o = "ok"
           THEN listings \cup {Listing(bisyncCmd(options).path1,
                                       bisyncCmd(options).path2)}
           ELSE listings
    /\ options' =
           IF flow[f].pc = "resync.touch" /\ o = "ok"
           THEN [options EXCEPT
                    !.additionalFlags = (IF @ = "undefined" THEN <<>> ELSE @)
                                            \o RESYNC_FLAG]
           ELSE options
    /\ UNCHANGED <<path, sanitized, managerVars, echoVars, configVars>>

InitPaths ==
    /\ Constructed
    /\ NoSecrets
    /\ NoExecutors
    /\ NoCommand
    /\ serverSetupStatus = [sv \in Servers |-> Absent]
    /\ lastEvent = [sv \in Servers |-> "none"]
    /\ options \in [localPath : LocalPaths, remotePath : RemotePaths,
                    additionalFlags : {"undefined"}]
    /\ config = [Enabled EXCEPT
                     !.remoteName = (remoteNameOf(options.remotePath) # <<>>)]
    /\ lastSync = FALSE
    /\ remote = [sv \in Servers |-> [Provisioned EXCEPT !.bisyncState = FALSE]]
    /\ flow = [f \in Flows |-> IdleFlow]
    /\ path = <<>>
    /\ sanitized = <<>>
    /\ listings = {}

NextPaths ==
    \/ \E f \in RaceFlows :
           \E name \in {"performInitialResync", "performBidirectionalSync"} :
               InvokeNext(f, name)
    \/ \E f \in RaceFlows : \E o \in {"ok", "fail", "throw"} : BisyncResume(f, o)

SpecPaths == InitPaths /\ [][NextPaths]_vars

-----------------------------------------------------------------------------
(* The claims about ColabTerminalExecutor *)

\* the sockets that are connecting or open
Live == {s \in 1..nSock : sock[s].readyState \in {CONNECTING, OPEN}}

\* the calls whose command is outstanding: sent and not settled
Outstanding == {c \in Calls : call[c].pc = "pending"}

\* C1 (as claimed; SpecStream): however the inbound stream is cut into
\* messages, once the text received since the command was sent contains the
\* marker followed by exit=<digits>, execute has resolved: no call is still
\* pending over a buffer that holds a complete marker.
C1_MarkerDetectedAcrossChunks ==
    \A c \in Calls : call[c].pc = "pending" => ~isCmdDone(call[c].cmdOutput).complete

\* C2 (Spec): when the timer of a call that is still waiting for its marker
\* fires, the call is rejected with the timeout error and the executor is not
\* connected afterwards.
C2_TimeoutRejectsAndDisconnects ==
    [][\A c \in Calls :
          (call[c].pc = "pending" /\ call[c].timer /\ ~call'[c].timer)
              => /\ call'[c].pc = "rejected"
                 /\ call'[c].error = "TIMEOUT"
                 /\ ~isConnected']_vars

\* C2, witness: a call was rejected by its timeout and the executor is disconnected
C2_Witness ==
    \E c \in Calls :
        call[c].pc = "rejected" /\ call[c].error = "TIMEOUT" /\ call[c].sent /\ ~isConnected

\* C3 (as claimed; Spec): an execute call invoked after a command timeout has
\* closed the channel re-establishes it: such a call never gives up with a
\* connection timeout without having opened a new connection.
C3_LaterExecuteReconnects ==
    \A c \in Calls :
        (call[c].cold /\ call[c].pc = "rejected" /\ call[c].error = "CONNECTION_TIMEOUT")
            => call[c].reopened

\* C4 (as claimed; Spec): overlapping execute calls are guarded against, so at
\* most one command is outstanding on the executor at any time.
C4_OneCommandOutstanding == Cardinality(Outstanding) <= 1

\* C5 (as claimed; SpecStream): every CommandResult carries the exit status
\* that the completion marker of the call's own command announced.
C5_ResultCarriesOwnExitCode ==
    \A c \in Calls : call[c].pc = "resolved" => call[c].exitCode = call[c].announced

\* C6 (as claimed; Spec): disconnect() or dispose() while an execute call is in
\* flight fails that call: a step that drops the socket without any timer
\* firing leaves no outstanding call pending.
C6_DisconnectFailsInFlight ==
    [][\A c \in Calls :
          (/\ call[c].pc = "pending"
           /\ terminalWs # 0 /\ terminalWs' = 0
           /\ \A d \in Calls : call'[d].timer = call[d].timer)
              => call'[c].pc = "rejected"]_vars

\* C7 (SpecStream): a call is resolved with a CommandResult only over a buffer
\* in which the completion marker occurs, and then success is true exactly when
\* the exit code is 0; a call that failed (connection timeout, command timeout)
\* is rejected with its error kind and carries no result.
C7_ResultOnlyOnMarker ==
    \A c \in Calls :
        /\ call[c].pc = "resolved"
              => /\ isCmdDone(call[c].cmdOutput).complete
                 /\ call[c].exitCode >= 0
                 /\ call[c].success = (call[c].exitCode = 0)
                 /\ call[c].error = "none"
        /\ call[c].pc = "rejected"
              => /\ call[c].error # "none"
                 /\ call[c].exitCode = -1
                 /\ ~call[c].success
        /\ call[c].error # "none" => call[c].pc = "rejected"

\* C7, witness: a command that completed with a non-zero status was resolved
\* into a result with success = false
C7_Witness ==
    \E c \in Calls :
        call[c].pc = "resolved" /\ call[c].exitCode = 127 /\ ~call[c].success

\* C8 (as claimed; Spec): the executor owns at most one live (connecting or
\* open) socket at every moment.
C8_AtMostOneLiveChannel == Cardinality(Live) <= 1

\* C9 (as claimed; Spec): after dispose() no connect() or execute() opens a
\* socket or sends a command.
C9_NoReuseAfterDispose ==
    [][disposed => (nSock' = nSock /\ \A c \in Calls : call'[c].sent = call[c].sent)]_vars

-----------------------------------------------------------------------------
(* The claims about StorageIntegration *)

\* the place of a status in the progress of a setup; 0 for the others
Rank(status) ==
    CASE status = "checking" -> 1
      [] status = "installing" -> 2
      [] status = "syncing" -> 3
      [] status = "ready" -> 4
      [] OTHER -> 0

\* the commands of a setup on a fresh server, every one of them succeeding
FreshSetupCommands ==
    <<"command -v rclone", "command -v rclone", "curl | sudo bash",
      "mkdir -p configDir", "base64 -d > rclone.conf", "chmod 600",
      "rclone about", "rclone lsd", "rclone mkdir", "mkdir -p localPath",
      "rclone touch", "rclone bisync --resync --dry-run",
      "rclone bisync --resync">>

\* flow f is a setupOnServer call that found the server not set up, went
\* through installation, upload and initial sync, and returned success
CompletedSetup(f) ==
    /\ flow[f].op = "setupOnServer"
    /\ flow[f].pc = "done"
    /\ flow[f].ret.success
    /\ flow[f].ret.text = "Storage configured successfully"

\* C10 (SpecStorage): the status events fired by a setupOnServer call that
\* set up a server (enabled config, valid workspace, server not set up, every
\* step succeeding) are CHECKING, INSTALLING, SYNCING, READY in that order:
\* only these four occur, none is followed by an earlier one, none is skipped,
\* and READY is fired exactly once, as the last event.
C10_SetupEventsInOrder ==
    \A f \in Flows :
        CompletedSetup(f) =>
            LET ev == flow[f].events
            IN  /\ \A i \in 1..Len(ev) : Rank(ev[i]) > 0
                /\ \A i \in 1..(Len(ev) - 1) : Rank(ev[i]) <= Rank(ev[i + 1])
                /\ \A k \in 1..4 : \E i \in 1..Len(ev) : Rank(ev[i]) = k
                /\ Cardinality({i \in 1..Len(ev) : ev[i] = "ready"}) = 1
                /\ ev[Len(ev)] = "ready"

\* C10, witness: a setup of a fresh server has run through all its commands
\* and returned READY
C10_Witness ==
    \E f \in Flows :
        /\ CompletedSetup(f)
        /\ flow[f].cmds = FreshSetupCommands
        /\ flow[f].ret.status = "ready"
        /\ remote[flow[f].server] = Provisioned

\* the commands of setupOnServer whose failure fails the setup: all but the
\* probes, which answer false, and the version query
SetupFatal ==
    {"curl | sudo bash", "mkdir -p configDir", "base64 -d > rclone.conf",
     "chmod 600", "rclone about", "rclone mkdir", "mkdir -p localPath",
     "rclone touch", "rclone bisync --resync --dry-run",
     "rclone bisync --resync"}

\* how often status occurs in the events of flow f
Fired(f, status) ==
    Cardinality({i \in 1..Len(flow[f].events) : flow[f].events[i] = status})

\* a step of setupOnServer call f has failed: a command of SetupFatal did not
\* succeed (it reported failure, or execute threw), or the call found no
\* rcloneConfigContent
SetupStepFailed(f) ==
    /\ flow[f].op = "setupOnServer"
    /\ \/ flow[f].failed \in SetupFatal
       \/ flow[f].ret.text = "Rclone config content is missing"

\* Where the failing step is one of SetupFatal or the missing content, the call
\* has returned a failure with status ERROR, it has fired ERROR exactly once, as
\* its last event, it has fired no READY, and the failing command is the last
\* command it issued.
FatalStepFiresErrorOnce ==
    \A f \in Flows :
        SetupStepFailed(f) =>
            /\ flow[f].pc = "done"
            /\ flow[f].awaiting = "none"
            /\ ~flow[f].ret.success
            /\ flow[f].ret.status = "error"
            /\ Fired(f, "error") = 1
            /\ flow[f].events[Len(flow[f].events)] = "error"
            /\ Fired(f, "ready") = 0
            /\ flow[f].failed \in SetupFatal
                  => flow[f].cmds[Len(flow[f].cmds)] = flow[f].failed

\* the last command of call f that did not succeed was rejected by execute, and
\* it is not the command of a boolean probe
ExecutorErrorThrown(f) ==
    /\ flow[f].report = "execute rejected"
    /\ flow[f].failed \notin BooleanProbes

\* C11 (SpecStorage): when a step of a setupOnServer call fails, by a command of
\* SetupFatal failing, by the missing content or by a thrown executor error, the
\* call has returned with status ERROR, it has fired ERROR exactly once and no
\* READY, and it has issued no command after the failing one.
C11_SetupFailureFiresErrorOnce ==
    \A f \in Flows :
        flow[f].op = "setupOnServer"
        /\ (SetupStepFailed(f) \/ ExecutorErrorThrown(f)) =>
            /\ flow[f].pc = "done"
            /\ flow[f].ret.status = "error"
            /\ Fired(f, "error") = 1
            /\ Fired(f, "ready") = 0
            /\ flow[f].cmds[Len(flow[f].cmds)] = flow[f].failed
                   \/ flow[f].failed \notin SetupFatal

\* setupOnServer call f is at the await of its probe, and the step settles it
\* with the probe reporting rclone installed
ProbeReportsInstalled(f) ==
    /\ flow[f].op = "setupOnServer"
    /\ flow[f].pc = "checkIfSetup"
    /\ flow'[f].pc # "checkIfSetup"
    /\ flow'[f].failed = "none"

SyncInFlight(f) ==
    /\ flow[f].op = "syncNow"
    /\ flow[f].pc # "done"
    /\ Len(flow[f].events) > 0

\* C13 (SpecSync): of the syncNow calls on one endpoint that have not returned,
\* at most one has passed the READY guard.
C13_OneSyncPassesGuard ==
    \A f, g \in Flows :
        SyncInFlight(f) /\ SyncInFlight(g) /\ flow[f].server = flow[g].server
            => f = g

\* syncNow call f started in READY, passed the guard and has returned
SyncReturned(f) ==
    /\ flow[f].op = "syncNow"
    /\ flow[f].pc = "done"
    /\ flow[f].entry = "ready"
    /\ Len(flow[f].events) > 0

\* the sync composite of syncNow call f succeeded: the call went on to READY
CompositeSucceeded(f) == Fired(f, "ready") > 0

\* C14 (SpecOps): a syncNow call that started in READY fired SYNCING first; if
\* its composite succeeded, it wrote the lastSync timestamp, its last event is
\* READY and it returned success; if not, its last event is ERROR, it wrote no
\* timestamp, and the error it returned is more than the fallback text "Sync
\* failed": it carries what the failed operation reported.
C14_SyncNowOutcome ==
    \A f \in Flows :
        SyncReturned(f) =>
            /\ flow[f].events[1] = "syncing"
            /\ IF CompositeSucceeded(f)
               THEN /\ flow[f].wrote
                    /\ flow[f].events[Len(flow[f].events)] = "ready"
                    /\ flow[f].ret.success
               ELSE /\ ~flow[f].wrote
                    /\ flow[f].events[Len(flow[f].events)] = "error"
                    /\ flow[f].ret.status = "error"
                    /\ flow[f].ret.text # "Sync failed"

\* the commands of validateRcloneSetup, in the order it issues them: presence
\* check, version query, test of the config file, listing of the remotes
ValidationCommands ==
    <<"command -v rclone", "rclone version", "test -f rclone.conf",
      "rclone listremotes">>

\* the validation of call f ran to its end and passed: no command failed but,
\* at most, the version query, whose answer is not used
ValidationPassed(f) ==
    /\ flow[f].pc = "done"
    /\ flow[f].cmds = ValidationCommands
    /\ flow[f].failed \in {"none", "rclone version"}

\* every command call f issued is one of validateRcloneSetup
OnlyValidationCommands(f) ==
    \A i \in 1..Len(flow[f].cmds) :
        \E j \in 1..Len(ValidationCommands) :
            flow[f].cmds[i] = ValidationCommands[j]

\* C15 (SpecProbe): a checkAndInitializeStatus call that finds the status
\* CHECKING, INSTALLING, SYNCING or READY has returned with no command issued
\* and no status set; any other call issues only commands of the read-only
\* validation, and, when the config is enabled and the call has returned, its
\* last status is READY if the validation passed and SETUP_REQUIRED if not.
C15_CheckSkipsOrValidates ==
    \A f \in Flows :
        flow[f].op = "checkAndInitializeStatus" =>
            IF flow[f].entry \in {"checking", "installing", "syncing", "ready"}
            THEN /\ flow[f].pc = "done"
                 /\ flow[f].cmds = <<>>
                 /\ flow[f].events = <<>>
                 /\ flow[f].ret.status = flow[f].entry
            ELSE /\ OnlyValidationCommands(f)
                 /\ flow[f].events[1] = "checking"
                 /\ flow[f].pc = "done" /\ flow[f].config.enabled =>
                        flow[f].events[Len(flow[f].events)] =
                            IF ValidationPassed(f) THEN "ready"
                            ELSE "setup_required"

\* C15, witness: a check on a server in SETUP_REQUIRED ran the four commands
\* of the validation and left READY
C15_Witness ==
    \E f \in Flows :
        /\ flow[f].op = "checkAndInitializeStatus"
        /\ flow[f].entry = "setup_required"
        /\ ValidationPassed(f)
        /\ flow[f].events = <<"checking", "ready">>
        /\ getStatus(flow[f].server) = "ready"

\* C16 (SpecProbe): the commands a validateSetup call has issued are the first
\* commands of the read-only validation, in its order: presence check, version
\* query, test of the config file, listing of the remotes, and nothing else.
C16_ValidateSetupReadOnly ==
    \A f \in Flows :
        flow[f].op = "validateSetup" =>
            /\ Len(flow[f].cmds) <= Len(ValidationCommands)
            /\ \A i \in 1..Len(flow[f].cmds) :
                   flow[f].cmds[i] = ValidationCommands[i]

\* C16, witness: a validateSetup call has sent all four commands and found no
\* remote configured
C16_Witness ==
    \E f \in Flows :
        /\ flow[f].op = "validateSetup"
        /\ flow[f].pc = "done"
        /\ flow[f].cmds = ValidationCommands
        /\ flow[f].ret.text = "No rclone remotes configured"

\* C17 (SpecStorage): once an event has been fired for an endpoint, the status
\* of the last event fired for it is what getStatus returns for it.
C17_LastEventIsStatus ==
    \A sv \in Servers :
        lastEvent[sv] # "none" => lastEvent[sv] = getStatus(sv)

\* call f has settled and the caller holds a result object: success and status
Resolved(f) ==
    /\ flow[f].pc = "done"
    /\ flow[f].ret.status # "none"

\* call f is the early return of checkAndInitializeStatus, whose result carries
\* success and status only
SkippedCheck(f) ==
    /\ flow[f].op = "checkAndInitializeStatus"
    /\ flow[f].entry \in {"checking", "installing", "syncing", "ready"}

\* C18 (SpecOps), as stated: every call of setupOnServer, syncNow,
\* validateSetup and checkAndInitializeStatus that has settled has resolved to a
\* result object with success, status and a message or an error.
C18_ResultHasMessageOrError ==
    \A f \in Flows :
        flow[f].pc = "done" => Resolved(f) /\ flow[f].ret.text # "none"

\* C18 (SpecOps), amended: every call that has settled has resolved to a result
\* object with success and status, never rejected, and the result carries a
\* message or an error unless the call is a checkAndInitializeStatus that
\* returned at once because the status was CHECKING, INSTALLING, SYNCING or
\* READY.
C18_ResolvesToResult ==
    \A f \in Flows :
        flow[f].pc = "done" =>
            /\ Resolved(f)
            /\ flow[f].ret.text = "none" => SkippedCheck(f)
            /\ ~flow[f].ret.success => flow[f].ret.status # "ready"

\* C18, witness: execute was rejected under a syncNow call (connection failure
\* or command timeout) and the call resolved to a failure carrying the error
C18_Witness ==
    \E f \in Flows :
        /\ flow[f].op = "syncNow"
        /\ Resolved(f)
        /\ flow[f].report = "execute rejected"
        /\ ~flow[f].ret.success
        /\ flow[f].ret.text = "execute rejected"

\* the step drops the map's entry of server id
EntryDropped(id) ==
    /\ serverSetupStatus[id] # Absent
    /\ serverSetupStatus'[id] = Absent

\* C19 (SpecProbe): a step that drops the status entry of a server leaves
\* getStatus of that server NOT_CONFIGURED and the entry of every other server
\* as it was; it issues no command (no call moves) and leaves the remote state
\* of every server alone.
C19_RemoveServerDropsOneEntry ==
    [][\A id \in Servers :
          EntryDropped(id) =>
              /\ getStatus(id)' = "not_configured"
              /\ \A other \in Servers \ {id} :
                     serverSetupStatus'[other] = serverSetupStatus[other]
              /\ flow' = flow
              /\ remote' = remote]_vars

\* C19, witness: the entry of s1, for which an event had been fired, is gone
\* and s2 is still READY
C19_Witness ==
    /\ serverSetupStatus["s1"] = Absent
    /\ lastEvent["s1"] # "none"
    /\ getStatus("s1") = "not_configured"
    /\ getStatus("s2") = "ready"

\* what storageConfigManager.get() hands to an operation on server sv, and what
\* the Storage Info of sv shows: the one stored configuration with its lastSync,
\* whatever the server
StoredConfig(sv) == <<config, lastSync>>

\* the step is one of call f, on its server
StepOf(f) == flow'[f] # flow[f]

\* A step of a call on one server leaves the status entry of every other server
\* and the last event fired for it as they were.
StatusEntriesIndependent ==
    [][\A f \in Flows : \A other \in Servers \ {flow'[f].server} :
          StepOf(f) =>
              /\ serverSetupStatus'[other] = serverSetupStatus[other]
              /\ lastEvent'[other] = lastEvent[other]]_vars

\* C20 (SpecOps): a step of a call on one server leaves, for every other
\* server, its status entry, the last event fired for it, and the stored state
\* that operations on it read, as they were.
C20_EndpointsIndependent ==
    [][\A f \in Flows : \A other \in Servers \ {flow'[f].server} :
          StepOf(f) =>
              /\ serverSetupStatus'[other] = serverSetupStatus[other]
              /\ lastEvent'[other] = lastEvent[other]
              /\ StoredConfig(other)' = StoredConfig(other)]_vars

\* C21 (SpecRace): in every step, a server whose status becomes INSTALLING
\* had the status CHECKING or INSTALLING, and a server whose status becomes
\* SYNCING had the status INSTALLING or READY.
C21_InstallingAndSyncingEntered ==
    [][\A sv \in Servers :
          /\ getStatus(sv)' = "installing" =>
                 getStatus(sv) \in {"checking", "installing"}
          /\ getStatus(sv)' = "syncing" /\ getStatus(sv) # "syncing" =>
                 getStatus(sv) \in {"installing", "ready"}]_vars

\* C22 (SpecOperations): an invocation of an atomic operation has issued at
\* most one command, and once it has settled it has issued exactly one: the
\* single command of that operation.
C22_AtomicIssuesOneCommand ==
    \A f \in Flows :
        flow[f].op \in AtomicOperations =>
            /\ Len(flow[f].cmds) <= 1
            /\ flow[f].pc = "done" =>
                   flow[f].cmds = <<AtomicCommand(flow[f].op)>>

\* C22, witness: createCheckFile has settled after its one `rclone touch`
C22_Witness ==
    \E f \in Flows :
        /\ flow[f].op = "createCheckFile"
        /\ flow[f].pc = "done"
        /\ flow[f].cmds = <<"rclone touch">>
        /\ flow[f].ret.success

\* the atomic operations that answer a boolean
BooleanProbeOperations ==
    {"isRcloneInstalled", "hasRcloneConfig", "isRemoteAccessible",
     "remotePathExists", "bisyncStateExists"}

\* C23 (SpecOperations): an invocation of a boolean probe that has settled has
\* resolved, never rejected, and its answer is true exactly when its command
\* succeeded: false when the command failed and when execute threw.
C23_ProbesNeverThrow ==
    \A f \in Flows :
        flow[f].op \in BooleanProbeOperations /\ flow[f].pc = "done" =>
            /\ flow[f].ret.status = "resolved"
            /\ flow[f].ret.success = (flow[f].failed = "none")

\* C23, witness: bisyncStateExists answered false on a server that has the
\* listing, where `test -f` fails only by execute throwing
C23_Witness ==
    \E f \in Flows :
        /\ flow[f].op = "bisyncStateExists"
        /\ flow[f].pc = "done"
        /\ remote[flow[f].server].bisyncState
        /\ flow[f].ret.status = "resolved"
        /\ ~flow[f].ret.success

\* the step settles the await of call f with execute throwing: the command is
\* the test of a listing that is there, which fails by rejection only, or it is
\* not the command of a boolean probe and the call notes the rejection
ExecuteRejected(f) ==
    /\ flow[f].awaiting # "none"
    /\ flow[f].failed # flow[f].awaiting
    /\ flow'[f].failed = flow[f].awaiting
    /\ \/ /\ flow[f].awaiting = "test -f bisync.lst"
          /\ remote[flow[f].server].bisyncState
       \/ /\ flow[f].awaiting \notin BooleanProbes
          /\ flow'[f].report = "execute rejected"

\* C24 (SpecOps): when execute throws under a setupOnServer or syncNow call,
\* the call ends in that step: it returns a failure with status ERROR and the
\* error's message, has fired ERROR exactly once, and issues no further command.
C24_ThrownErrorStopsFlow ==
    [][\A f \in Flows :
          flow[f].op \in {"setupOnServer", "syncNow"} /\ ExecuteRejected(f) =>
              /\ flow'[f].pc = "done"
              /\ flow'[f].ret.status = "error"
              /\ flow'[f].ret.text = "execute rejected"
              /\ Fired(f, "error")' = 1
              /\ flow'[f].cmds = flow[f].cmds]_vars

\* how often call f has issued the install command
Installs(f) ==
    Cardinality({i \in 1..Len(flow[f].cmds) :
                    flow[f].cmds[i] = "curl | sudo bash"})

\* the presence check of installRclone call f found the tool: the check has
\* settled and neither it nor an install command is the last command that
\* did not succeed
ToolFound(f) ==
    /\ flow[f].op = "installRclone"
    /\ Len(flow[f].cmds) >= 1
    /\ flow[f].awaiting # "command -v rclone"
    /\ flow[f].failed \notin {"command -v rclone", "curl | sudo bash"}

UploadCommands ==
    <<"mkdir -p configDir", "base64 -d > rclone.conf", "chmod 600">>

\* C26 (SpecOperations): the commands an uploadRcloneConfig call has issued are
\* the first of create-directory, write-content, set-permissions, in that
\* order; once a command did not succeed the call has settled with that command
\* as its last and without success; a call that settled with no command failing
\* issued all three and returned success.
C26_UploadInOrder ==
    \A f \in Flows :
        flow[f].op = "uploadRcloneConfig" =>
            /\ Len(flow[f].cmds) <= Len(UploadCommands)
            /\ \A i \in 1..Len(flow[f].cmds) :
                   flow[f].cmds[i] = UploadCommands[i]
            /\ flow[f].failed # "none" =>
                   /\ flow[f].pc = "done"
                   /\ flow[f].cmds[Len(flow[f].cmds)] = flow[f].failed
                   /\ ~flow[f].ret.success
            /\ flow[f].pc = "done" /\ flow[f].failed = "none" =>
                   /\ flow[f].cmds = UploadCommands
                   /\ flow[f].ret.success

\* C26, witness: writing the content failed and the call returned the failure
\* without setting the permissions
C26_Witness ==
    \E f \in Flows :
        /\ flow[f].op = "uploadRcloneConfig"
        /\ flow[f].pc = "done"
        /\ flow[f].failed = "base64 -d > rclone.conf"
        /\ flow[f].report = "command output"
        /\ flow[f].cmds = <<"mkdir -p configDir", "base64 -d > rclone.conf">>
        /\ flow[f].ret.status = "resolved"

\* the place of a command among the steps of performInitialResync: the check
\* that the remote is accessible, the remote directory ensured (looked up, and
\* made when it is not there), the local directory, the access-check file, the
\* dry run, the resync
ResyncStep(cmd) ==
    CASE cmd = "rclone about" -> 1
      [] cmd = "rclone lsd" -> 2
      [] cmd = "rclone mkdir" -> 3
      [] cmd = "mkdir -p localPath" -> 4
      [] cmd = "rclone touch" -> 5
      [] cmd = "rclone bisync --resync --dry-run" -> 6
      [] cmd = "rclone bisync --resync" -> 7
      [] OTHER -> 0

\* the steps of performInitialResync among the commands of call f, from the
\* n-th command on, come in its order, each at most once
InResyncOrder(f, n) ==
    \A i \in n..Len(flow[f].cmds) :
        /\ ResyncStep(flow[f].cmds[i]) > 0
        /\ i > n => ResyncStep(flow[f].cmds[i - 1]) < ResyncStep(flow[f].cmds[i])

\* the commands every performInitialResync that succeeds has issued
ResyncAlways ==
    {"rclone lsd", "mkdir -p localPath", "rclone touch",
     "rclone bisync --resync --dry-run", "rclone bisync --resync"}

\* the commands of call f from the n-th on are a run of performInitialResync:
\* its steps in the fixed order, starting with the accessibility check when the
\* remote path names a remote; once a step other than the lookup of the remote
\* directory did not succeed, the call has settled without success and that
\* step's command is its last; a call that returned success has run every
\* step, made the remote directory only if the lookup did not find it, and
\* ended with the real resync
ResyncRun(f, n) ==
    /\ InResyncOrder(f, n)
    /\ Len(flow[f].cmds) >= n =>
           flow[f].cmds[n] = IF config.remoteName THEN "rclone about"
                             ELSE "rclone lsd"
    /\ ResyncStep(flow[f].failed) \notin {0, 2} =>
           /\ flow[f].pc = "done"
           /\ flow[f].cmds[Len(flow[f].cmds)] = flow[f].failed
           /\ ~flow[f].ret.success
    /\ flow[f].pc = "done" /\ ResyncStep(flow[f].failed) \in {0, 2} =>
           /\ flow[f].ret.success
           /\ flow[f].cmds[Len(flow[f].cmds)] = "rclone bisync --resync"
           /\ \A c \in ResyncAlways :
                  \E i \in n..Len(flow[f].cmds) : flow[f].cmds[i] = c
           /\ (flow[f].failed = "rclone lsd")
                  = (\E i \in n..Len(flow[f].cmds) :
                        flow[f].cmds[i] = "rclone mkdir")

\* C27 (SpecOperations): a performInitialResync call issues its steps in the
\* fixed order: accessibility check, remote directory ensured, local directory,
\* access-check file, dry run, real resync; the failure of a step is returned
\* at once and no later step runs; on full success the call has ended with
\* the real resync and returns its result.
C27_ResyncStepsInOrder ==
    \A f \in Flows : flow[f].op = "performInitialResync" => ResyncRun(f, 1)

\* C27, witness: the dry run failed and the call returned its failure without
\* the real resync
C27_Witness ==
    \E f \in Flows :
        /\ flow[f].op = "performInitialResync"
        /\ flow[f].pc = "done"
        /\ flow[f].failed = "rclone bisync --resync --dry-run"
        /\ flow[f].cmds[Len(flow[f].cmds)] = "rclone bisync --resync --dry-run"
        /\ ~flow[f].ret.success

\* the commands of a performBidirectionalSync call f: the lookup of the state
\* listing first, then either the incremental bisync alone, or a run of
\* performInitialResync
SyncRun(f) ==
    /\ Len(flow[f].cmds) >= 1 => flow[f].cmds[1] = "test -f bisync.lst"
    /\ IF Len(flow[f].cmds) >= 2 /\ flow[f].cmds[2] = "rclone bisync"
       THEN Len(flow[f].cmds) = 2
       ELSE ResyncRun(f, 2)

\* the step settles the lookup of the state listing by performBidirectionalSync
\* call f
StateLookedUp(f) ==
    /\ flow[f].op = "performBidirectionalSync"
    /\ flow[f].awaiting = "test -f bisync.lst"
    /\ flow'[f].awaiting # "test -f bisync.lst"

SanitizedReference(p) ==
    LET m == [i \in 1..Len(p) |-> IF p[i] \in {"/", ":"} THEN "_" ELSE p[i]]
        kept == SelectSeq([i \in 1..Len(p) |-> i],
                          LAMBDA i : m[i] # "_" \/ (i > 1 /\ m[i - 1] # "_"))
    IN  [k \in 1..Len(kept) |-> m[kept[k]]]

\* what the examples give
ExampleSanitized(p) ==
    CASE p = <<"/", "c", "o", "n", "t", "e", "n", "t", "/", "a", "b", "c", "-", "1", "2", "3">> ->
            <<"c", "o", "n", "t", "e", "n", "t", "_", "a", "b", "c", "-", "1", "2", "3">>
      [] p = <<"d", "r", "i", "v", "e", "1", ":", "/", "p", "e", "r", "/", "t", "e", "s", "t", "i", "n", "g", "/", "t", "1">> ->
            <<"d", "r", "i", "v", "e", "1", "_", "p", "e", "r", "_", "t", "e", "s", "t", "i", "n", "g", "_", "t", "1">>
      [] p = <<"/", "/", "/", "a", "/", "b">> -> <<"a", "_", "b">>
      [] OTHER -> SanitizedReference(p)

\* C30 (SpecSanitize): every call of sanitizePathForBisync on a string returns
\* the reference result for that string, the same at every call: '/' and ':'
\* replaced by '_', runs of '_' collapsed to one, leading '_' stripped, every
\* other character unchanged; the three examples give the results stated.
C30_SanitizeEqualsReference ==
    \A k \in 1..Len(sanitized) :
        /\ sanitized[k] = SanitizedReference(path)
        /\ sanitized[k] = ExampleSanitized(path)
        /\ sanitized[k] = sanitized[1]
        /\ \A i \in 1..Len(sanitized[k]) : sanitized[k][i] \notin {"/", ":"}

\* C30, witness: 'drive1:/per/testing/t1', with a run of two separators inside,
\* has been sanitized twice, to 'drive1_per_testing_t1'
C30_Witness ==
    /\ Len(sanitized) = 2
    /\ path = <<"d", "r", "i", "v", "e", "1", ":", "/", "p", "e", "r", "/", "t", "e", "s", "t", "i", "n", "g", "/", "t", "1">>
    /\ sanitized[2] = <<"d", "r", "i", "v", "e", "1", "_", "p", "e", "r", "_", "t", "e", "s", "t", "i", "n", "g", "_", "t", "1">>

\* a call has run the real resync and returned its success
ResyncSucceeded ==
    \E g \in Flows :
        /\ flow[g].pc = "done"
        /\ flow[g].ret.success
        /\ flow[g].cmds[Len(flow[g].cmds)] = "rclone bisync --resync"

InUse(sv) ==
    {i \in 1..Len(instance) : instance[i].server = sv /\ instance[i].disposals = 0}

\* C31 (SpecManager): at every moment the executors in use for a server id are
\* the registered one, if any, so at most one; getOrCreateExecutor returns the
\* registered executor when there is one and constructs none; removeExecutor
\* and dispose() leave every executor they drop disposed, once, and dispose()
\* leaves the registry empty; an executor returned is never one that was
\* removed.
C31_OneExecutorPerServer ==
    /\ [](/\ \A sv \in Servers :
                 InUse(sv) = IF executors[sv] = 0 THEN {} ELSE {executors[sv]}
          /\ \A i \in 1..Len(instance) : instance[i].disposals <= 1
          /\ handed.executor # 0 =>
                 /\ instance[handed.executor].disposals = 0
                 /\ instance[handed.executor].server = handed.server)
    /\ [][/\ \A sv \in Servers :
                 executors[sv] # 0 /\ handed'.server = sv =>
                     /\ handed'.executor = executors[sv]
                     /\ instance' = instance
          /\ \A sv \in Servers :
                 executors[sv] # 0 /\ executors'[sv] = 0 =>
                     instance'[executors[sv]].disposals = 1]_vars

\* C31, witness: the executor of a server was removed and disposed, and a
\* later getOrCreateExecutor for the server has returned another one
C31_Witness ==
    /\ handed.executor = 2
    /\ instance[1].server = handed.server
    /\ instance[1].disposals = 1
    /\ executors[handed.server] = 2

\* C32 (SpecBusy): a setupOnServer or validateSetup call invoked for a server
\* whose status is CHECKING, INSTALLING or SYNCING issues no command and fires
\* no status, and no two calls await a command on the server's executor at
\* the same time.
C32_BusyEndpointRefusesCalls ==
    /\ \A f \in Flows \ {1} :
           flow[f].cmds = <<>> /\ flow[f].events = <<>>
    /\ \A f, g \in Flows :
           /\ f # g
           /\ flow[f].server = flow[g].server
           /\ flow[f].awaiting # "none"
           => flow[g].awaiting = "none"

\* C33 (Spec): the timeout of a call that has resolved with a result has no
\* effect on the channel: when its timer fires, the socket the executor holds
\* stays as it is.
C33_ResolvedCallTimerIsInert ==
    [][\A c \in Calls :
          (call[c].pc = "resolved" /\ call[c].timer /\ ~call'[c].timer)
              => /\ terminalWs' = terminalWs
                 /\ sock' = sock]_vars

\* C34 (SpecEcho): no message of the echo of the framed command line makes
\* isCmdDone report completion, wherever the echo is cut: the marker in it is
\* followed by exit=$rc, not by a digit; the marker line the shell prints
\* after the command does, with the exit status it carries.
C34_EchoNeverCompletes ==
    \A k \in 1..Len(verdicts) :
        IF verdicts[k].of = "echo"
        THEN ~verdicts[k].result.complete
        ELSE /\ verdicts[k].result.complete
             /\ verdicts[k].result.exitCode \in ExitCodes

\* C34, witness: the whole framed line of a command that ends in a digit came
\* back in one message and did not complete the command; the marker line did
C34_Witness ==
    /\ Len(verdicts) = 3
    /\ command = <<"a", "0">>
    /\ verdicts[2].result = isCmdDone(<<LF>>)
    /\ ~verdicts[1].result.complete
    /\ verdicts[3].result.complete

\* C35 (SpecOps): when a setupOnServer call has returned READY, the tool is
\* installed on its server and the credential file is present, which is what
\* a validateSetup that follows needs in order to return READY too.
C35_ReadyMeansProvisioned ==
    \A f \in Flows :
        /\ flow[f].op = "setupOnServer"
        /\ flow[f].pc = "done"
        /\ flow[f].ret.status = "ready"
        => /\ remote[flow[f].server].installed
           /\ remote[flow[f].server].hasConfig

\* C36 (SpecPaths): no step changes the options object given to the sync
\* calls, and the flags of an incremental bisync command, built from that
\* object when the command is issued, hold no resync flag.
C36_OptionsLeftUnchanged ==
    [][/\ options' = options
       /\ \A f \in Flows :
              flow'[f].awaiting = "rclone bisync" /\ flow[f].awaiting # "rclone bisync"
              => \A i \in 1..Len(buildRcloneFlags(options')) :
                     buildRcloneFlags(options')[i] # RESYNC_FLAG[1]]_vars

-----------------------------------------------------------------------------
(* StorageConfigManager.  A configuration is an object; SecretStorage holds a  *)
(* string.  A Date is written "Date(1)", the ISO text JSON.stringify makes of  *)
(* it "iso(1)".                                                                *)

\* the configurations handed to save(): remoteRootPath may be empty, which the
\* schema refuses
StorageConfigs ==
    [type : {"object"},
     rcloneConfigPath : {"rclone.conf"},
     remoteRootPath : {"", "drive:/p", "drive:/q"},
     workspaceId : {"undefined", "w1"},
     enabled : BOOLEAN,
     lastSync : {"undefined", "Date(1)"}]

\* the partial configurations handed to update()
Updates ==
    {[lastSync |-> "Date(1)"], [enabled |-> FALSE], [remoteRootPath |-> "drive:/q"]}

\* JSON.stringify(value): a string whose text spells the object, a Date as its
\* ISO text
JSONstringify(value) ==
    [type |-> "string",
     text |-> [value EXCEPT !.lastSync = IF @ = "Date(1)" THEN "iso(1)" ELSE @]]

\* StorageConfigSchema.parse(x): x must be an object with non-empty
\* rcloneConfigPath and remoteRootPath; lastSync is coerced to a Date
StorageConfigSchemaParse(x) ==
    IF x.type = "object" /\ x.rcloneConfigPath # "" /\ x.remoteRootPath # ""
    THEN [ok |-> TRUE,
          value |-> [x EXCEPT !.lastSync = IF @ = "iso(1)" THEN "Date(1)" ELSE @]]
    ELSE [ok |-> FALSE, value |-> NoValue]

\* get(): undefined when nothing is stored; otherwise what the schema makes of
\* the stored string, undefined when the schema throws
get(configJson) ==
    IF configJson = NoValue THEN NoValue
    ELSE StorageConfigSchemaParse(configJson).value

\* isConfigured(): config?.enabled ? true : false
isConfigured(configJson) ==
    LET cfg == get(configJson)
    IN  IF cfg = NoValue THEN FALSE ELSE cfg.enabled

\* { ...existing, ...updates }
Merged(existing, updates) ==
    [k \in DOMAIN existing |->
        IF k \in DOMAIN updates THEN updates[k] ELSE existing[k]]

\* save(c): validate, store the JSON text, and record the workspace
\* association when the configuration names a workspace
save(c) ==
    LET validated == StorageConfigSchemaParse(c)
    IN  IF ~validated.ok
        THEN /\ answer' = [type |-> "error", text |-> "ZodError"]
             /\ UNCHANGED <<secrets, workspaceState, saved>>
        ELSE /\ secrets' = JSONstringify(validated.value)
             /\ workspaceState' =
                    IF validated.value.workspaceId # "undefined"
                    THEN [workspaceId |-> validated.value.workspaceId,
                          remoteRootPath |-> validated.value.remoteRootPath]
                    ELSE workspaceState
             /\ saved' = c
             /\ answer' = [type |-> "void"]

Save ==
    /\ \E c \in StorageConfigs : save(c)
    /\ UNCHANGED <<execVars, storageVars, pathVars, managerVars, echoVars>>

\* update(updates): throws without a configuration, otherwise saves the
\* existing one with the fields of updates replaced
Update ==
    /\ \E updates \in Updates :
           LET existing == get(secrets)
           IN  IF existing = NoValue
               THEN /\ answer' = [type |-> "error",
                                  text |-> "No existing storage configuration to update"]
                    /\ UNCHANGED <<secrets, workspaceState, saved>>
               ELSE save(Merged(existing, updates))
    /\ UNCHANGED <<execVars, storageVars, pathVars, managerVars, echoVars>>

\* delete()
Delete ==
    /\ secrets' = NoValue
    /\ workspaceState' = [workspaceId |-> "undefined", remoteRootPath |-> "undefined"]
    /\ saved' = NoValue
    /\ answer' = [type |-> "void"]
    /\ UNCHANGED <<execVars, storageVars, pathVars, managerVars, echoVars>>

\* a caller awaits get()
Get ==
    /\ answer' = get(secrets)
    /\ UNCHANGED <<secrets, workspaceState, saved>>
    /\ UNCHANGED <<execVars, storageVars, pathVars, managerVars, echoVars>>

\* a caller awaits isConfigured()
IsConfigured ==
    /\ answer' = [type |-> "boolean", value |-> isConfigured(secrets)]
    /\ UNCHANGED <<secrets, workspaceState, saved>>
    /\ UNCHANGED <<execVars, storageVars, pathVars, managerVars, echoVars>>

(* Specification SpecConfig: the methods of one StorageConfigManager, called   *)
(* one after the other on a SecretStorage that starts empty.                   *)

InitConfig ==
    /\ Constructed
    /\ NoSecrets
    /\ NoExecutors
    /\ NoCommand
    /\ NoPaths
    /\ StorageIdle

NextConfig ==
    \/ Save
    \/ Update
    \/ Delete
    \/ Get
    \/ IsConfigured

SpecConfig == InitConfig /\ [][NextConfig]_vars

\* C40 (SpecConfig): while the configuration of the last successful save() or
\* update() is stored, get() returns a configuration equal to it, and
\* isConfigured() is true exactly when a configuration with enabled set is
\* stored.
C40_SaveGetRoundTrip ==
    /\ saved # NoValue => get(secrets) = saved
    /\ isConfigured(secrets) <=> (saved # NoValue /\ saved.enabled)

\* C37 (SpecStorage): when the entry of a server has been removed while a call
\* for it was in flight (the call had fired a status, the entry is gone) and
\* no other operation has ever been invoked, a step in which no operation is
\* invoked leaves the server without entry and fires no event for it.
C37_RemovedServerStaysSilent ==
    [][\A f \in Flows :
          /\ flow[f].events # <<>>
          /\ serverSetupStatus[flow[f].server] = Absent
          /\ \A g \in Flows \ {f} : flow[g].op = "idle" /\ flow'[g].op = "idle"
          => /\ serverSetupStatus'[flow[f].server] = Absent
             /\ lastEvent'[flow[f].server] = lastEvent[flow[f].server]
             /\ flow'[f].events = flow[f].events]_vars

\* C38 (SpecOps): a syncNow call that passed the READY guard fires SYNCING
\* first, then at most one of READY and ERROR, exactly one once it has
\* returned; ERROR is never fired after READY within the call.
C38_SyncFiresOneTerminalStatus ==
    \A f \in Flows :
        flow[f].op = "syncNow" /\ flow[f].events # <<>> =>
            /\ flow[f].events[1] = "syncing"
            /\ Fired(f, "syncing") = 1
            /\ Fired(f, "ready") + Fired(f, "error") <= 1
            /\ flow[f].pc = "done" => Fired(f, "ready") + Fired(f, "error") = 1

-----------------------------------------------------------------------------
(* Specification SpecLive: setupOnServer, syncNow, validateSetup and           *)
(* checkAndInitializeStatus calls that overlap on one server.  Every await of  *)
(* a call settles: executor.execute resolves on the marker or rejects when     *)
(* waitForConnection gives up or when the command's timer fires, so a call     *)
(* that can resume does resume.                                                *)

NextLive ==
    \/ \E f \in RaceFlows : SetupOnServer(f, "s1")
    \/ \E f \in RaceFlows : SyncNow(f, "s1")
    \/ \E f \in RaceFlows : ValidateSetup(f, "s1")
    \/ \E f \in RaceFlows : CheckAndInitializeStatus(f, "s1")
    \/ \E f \in RaceFlows : \E o \in {"ok", "fail", "throw"} : SetupResume(f, o)
    \/ \E f \in RaceFlows : \E o \in {"ok", "fail", "throw"} : SyncResume(f, o)
    \/ \E f \in RaceFlows : \E o \in {"ok", "fail", "throw"} : ValidateResume(f, o)
    \/ \E f \in RaceFlows : \E o \in {"ok", "fail", "throw"} : CheckResume(f, o)

Settles ==
    \A f \in RaceFlows :
        /\ WF_vars(\E o \in {"ok", "fail", "throw"} : SetupResume(f, o))
        /\ WF_vars(\E o \in {"ok", "fail", "throw"} : SyncResume(f, o))
        /\ WF_vars(\E o \in {"ok", "fail", "throw"} : ValidateResume(f, o))
        /\ WF_vars(\E o \in {"ok", "fail", "throw"} : CheckResume(f, o))

SpecLive == InitBusy /\ [][NextLive]_vars /\ Settles

\* flow f ran to its return in this step, having set a status, and no other
\* call is running on its server
ReturnsAlone(f) ==
    /\ flow[f].pc # "done"
    /\ flow'[f].pc = "done"
    /\ flow'[f].events # <<>>
    /\ \A g \in Flows \ {f} :
           flow'[g].server = flow'[f].server => flow'[g].pc \in {"idle", "done"}

\* C39 (SpecLive): every call that was invoked returns, and when a call that
\* set a status returns while no other call is running on its server, the
\* server's status is not CHECKING, INSTALLING or SYNCING.
C39_CallsReturnWithSettledStatus ==
    /\ \A f \in RaceFlows : (flow[f].op # "idle") ~> (flow[f].pc = "done")
    /\ [][\A f \in Flows :
              ReturnsAlone(f) => serverSetupStatus'[flow'[f].server] \notin Busy]_vars

\* a setupOnServer and a syncNow have returned after they overlapped, each
\* having set a status, and a call has returned from its catch block
C39_Witness ==
    /\ \E f, g \in RaceFlows :
           /\ flow[f].op = "setupOnServer" /\ flow[g].op = "syncNow"
           /\ flow[f].pc = "done" /\ flow[g].pc = "done"
           /\ Fired(f, "checking") = 1 /\ Fired(g, "syncing") = 1
           /\ flow[g].ret.status = "error"
    /\ serverSetupStatus["s1"] \notin Busy

=============================================================================
